---------------------------- MODULE Spec2Model ----------------------------
(***************************************************************************)
(* A model of the physics core of expo-game-support: Vector2D, GameObject, *)
(* CollisionDetector and the two PhysicsEngine classes of the repository   *)
(* (the extended engine with events, sleeping, layers, joints, CCD and a   *)
(* spatial hash, and the basic engine the GameEngine instantiates).        *)
(*                                                                         *)
(* Numbers.  The code computes in IEEE doubles; the model computes in      *)
(* integers on a fixed grid:                                               *)
(*   - a length, a velocity component, a force component or an impulse     *)
(*     component n stands for n/200 (so 200 is one pixel, 2 is the 0.01    *)
(*     of the code, 100 is 0.5);                                           *)
(*   - an angle or angular velocity n stands for n/1000 radians;           *)
(*   - a restitution n stands for n/100;                                   *)
(*   - mass, time steps and layer numbers are plain integers.              *)
(* The engine is configured with targetTimeStep = 1 and maxDeltaTime = 2   *)
(* (both are constructor parameters), so that every sub-step has           *)
(* stepTime = 1 and products with the time step are exact.  All inputs are *)
(* chosen so that every division the code performs on them is exact on the *)
(* grid; where an operator has to round (a square root, an odd half) the   *)
(* comment at the operator says so.                                        *)
(***************************************************************************)
EXTENDS Integers, Sequences, FiniteSets, TLC

VARIABLES
  objs,              \* the GameObject instances the caller created, by id
  gameObjects,       \* PhysicsEngine.gameObjects: registered ids, in Map insertion order
  rigidBodies,       \* PhysicsEngine.rigidBodies: ids that have RigidBody metadata
  activeCollisions,  \* PhysicsEngine.activeCollisions: keys "idA|idB", in insertion order
  joints,            \* PhysicsEngine.joints: sequence of joint records
  gravity,           \* PhysicsEngine.gravity
  config,            \* PhysicsEngine.config
  worldBounds,       \* PhysicsEngine.worldBounds (Undefined when not set)
  isPaused,          \* PhysicsEngine.isPaused
  spatialHash,       \* PhysicsEngine.spatialHash: cell -> sequence of ids
  sleepingObjects,   \* performanceMetrics.sleepingObjects
  emitted,           \* events emitted by the last operation, in order
  threw,             \* the last update() ended by throwing
  lastOp,            \* the last operation the caller made
  lastId,            \* the id that operation was given, or the empty string
  lastDt,            \* the deltaTime the last update() was given
  ran,               \* history: the sub-steps the last update() started, and their step times
  created,           \* history: the objects as constructed
  entered,           \* history: pair keys whose last event was an enter
  alternationBroken, \* history: an enter arrived for an entered pair, or an exit for another
  lowStreak,         \* history: per id, consecutive update() calls that found the body slow
  metPairs,           \* history: pair keys the last update() detected as colliding
  touched,           \* history: ids whose position or velocity handleCollisions changed in the last update()
  missedPairs,       \* history: overlapping eligible pairs a sub-step of the last update() did not detect
  barredPairs,       \* history: pairs the last update() handled although a condition barred them
  poked,             \* history: sleeping bodies given a force or impulse since the last update()
  due,               \* history: the value of poked when the last update() began
  calls,             \* history: number of caller operations other than update() so far
  updates,           \* history: number of update() calls so far
  boxA, boxB,        \* inputs of the pure collision functions
  phase,             \* position of the pure-function specification
  hitAB, hitBA,      \* checkCollision(boxA, boxB) and checkCollision(boxB, boxA)
  resolved,          \* the boxes after resolveCollision, per engine
  arg,               \* what a function under check was given
  ret                \* what it left or returned

vars == << objs, gameObjects, rigidBodies, activeCollisions, joints, gravity,
           config, worldBounds, isPaused, spatialHash, sleepingObjects,
           emitted, threw, lastOp, lastId, lastDt, ran, created, entered, alternationBroken,
           lowStreak, metPairs, touched, missedPairs, barredPairs, poked, due, calls,
           updates,
           boxA, boxB, phase, hitAB, hitBA, resolved, arg, ret >>

engineVars == << objs, gameObjects, rigidBodies, activeCollisions, joints,
                 gravity, config, worldBounds, isPaused, spatialHash,
                 sleepingObjects, emitted, threw, lastOp, lastId, lastDt, ran, created,
                 entered,
                 alternationBroken, lowStreak, metPairs, touched, missedPairs,
                 barredPairs,
                 poked, due, calls, updates >>

detectVars == << boxA, boxB, phase, hitAB, hitBA, resolved, arg, ret >>

----------------------------------------------------------------------------
(* Arithmetic helpers *)

Abs(n) == IF n < 0 THEN -n ELSE n

Min(a, b) == IF a < b THEN a ELSE b

Max(a, b) == IF a > b THEN a ELSE b

Sign(n) == IF n < 0 THEN -1 ELSE IF n > 0 THEN 1 ELSE 0

\* Quotient rounded toward zero (the grid value nearest zero of the real quotient).
Quot(a, b) == Sign(a) * Sign(b) * (Abs(a) \div Abs(b))

\* Math.floor(a / b) for b > 0.
Floor(a, b) == a \div b

\* Math.ceil(a / b) for b > 0.
Ceil(a, b) == -((-a) \div b)

\* One pixel on the length grid.
Px(n) == n * 200

RECURSIVE ISqrtFrom(_, _)
\* Newton's iteration downward from r >= sqrt(n), n > 0.
ISqrtFrom(n, r) ==
  LET next == (r + n \div r) \div 2
  IN  IF next >= r THEN r ELSE ISqrtFrom(n, next)

\* Math.sqrt on the grid: exact on perfect squares, rounded down otherwise.
ISqrt(n) == IF n <= 0 THEN 0 ELSE ISqrtFrom(n, n)

----------------------------------------------------------------------------
(* Vector2D *)

Vec(x, y) == [x |-> x, y |-> y]

Zero == Vec(0, 0)

add(a, b) == Vec(a.x + b.x, a.y + b.y)

subtract(a, b) == Vec(a.x - b.x, a.y - b.y)

multiply(v, s) == Vec(v.x * s, v.y * s)

dot(a, b) == a.x * b.x + a.y * b.y

magnitudeSquared(v) == v.x * v.x + v.y * v.y

\* sqrt(x^2 + y^2); exact for axis-aligned vectors, rounded down otherwise.
magnitude(v) == ISqrt(magnitudeSquared(v))

\* normalize without its guard: divide(0) throws for the zero vector.
normalize_Unguarded(v) ==
  LET mag == magnitude(v)
  IN  IF mag = 0 THEN [threw |-> "Division por cero"]
      ELSE Vec(Quot(v.x * 1000, mag), Quot(v.y * 1000, mag))

\* A unit vector has components in thousandths: (1000, 0) is (1, 0).
normalize(v) ==
  LET mag == magnitude(v)
  IN  IF mag = 0 THEN Zero
      ELSE Vec(Quot(v.x * 1000, mag), Quot(v.y * 1000, mag))

\* v scaled by a unit vector component product: n in thousandths.
scaleByUnit(n, s) == Vec(Quot(n.x * s, 1000), Quot(n.y * s, 1000))

distance(a, b) == magnitude(subtract(a, b))

----------------------------------------------------------------------------
(* GameObject *)

getBounds(o) ==
  [left   |-> o.position.x - o.size.x \div 2,
   right  |-> o.position.x + o.size.x \div 2,
   top    |-> o.position.y - o.size.y \div 2,
   bottom |-> o.position.y + o.size.y \div 2]

applyForce(o, f) ==
  IF ~o.hasPhysics \/ o.isStatic THEN o
  ELSE [o EXCEPT !.force = add(o.force, f)]

applyImpulse(o, j) ==
  IF ~o.hasPhysics \/ o.isStatic \/ o.mass <= 0 THEN o
  ELSE [o EXCEPT !.velocity = Vec(o.velocity.x + Quot(j.x, o.mass),
                                  o.velocity.y + Quot(j.y, o.mass))]

destroy(o) == [o EXCEPT !.active = FALSE]

----------------------------------------------------------------------------
(* CollisionDetector *)

Null == [null |-> TRUE]

checkAABBCollision(objA, objB) ==
  LET boundsA  == getBounds(objA)
      boundsB  == getBounds(objB)
      overlapX == Min(boundsA.right, boundsB.right) - Max(boundsA.left, boundsB.left)
      overlapY == Min(boundsA.bottom, boundsB.bottom) - Max(boundsA.top, boundsB.top)
  IN  IF overlapX <= 0 \/ overlapY <= 0 THEN Null
      ELSE [objectA     |-> objA.id,
            objectB     |-> objB.id,
            point       |-> Vec(Max(boundsA.left, boundsB.left) + overlapX \div 2,
                                Max(boundsA.top, boundsB.top) + overlapY \div 2),
            normal      |-> IF overlapX < overlapY
                            THEN (IF objA.position.x < objB.position.x
                                  THEN Vec(-1, 0) ELSE Vec(1, 0))
                            ELSE (IF objA.position.y < objB.position.y
                                  THEN Vec(0, -1) ELSE Vec(0, 1)),
            penetration |-> IF overlapX < overlapY THEN overlapX ELSE overlapY]

checkCollision(objA, objB) == checkAABBCollision(objA, objB)

----------------------------------------------------------------------------
(* Sequences as the code's ordered containers (Array, the values of a Map, *)
(* a Set in insertion order)                                               *)

RECURSIVE FoldSeq(_, _, _)
FoldSeq(Op(_, _), acc, s) ==
  IF s = << >> THEN acc ELSE FoldSeq(Op, Op(acc, Head(s)), Tail(s))

Range(s) == {s[i] : i \in DOMAIN s}

Contains(s, e) == \E i \in DOMAIN s : s[i] = e

\* Set.add / a Map key set: e is appended unless it is already there.
AddUnique(s, e) == IF Contains(s, e) THEN s ELSE Append(s, e)

Without(s, e) == SelectSeq(s, LAMBDA x : x # e)

----------------------------------------------------------------------------
(* Ids are strings; a string is modelled as the sequence of its characters *)
(* so that comparison, concatenation, includes() and split() are computed. *)

CharCode(c) ==
  CASE c = "2" -> 50
    [] c = "p" -> 112
    [] c = "q" -> 113
    [] c = "|" -> 124

RECURSIVE StrLess(_, _)
\* a < b on strings: by UTF-16 code unit, a proper prefix is smaller.
StrLess(a, b) ==
  IF b = << >> THEN FALSE
  ELSE IF a = << >> THEN TRUE
  ELSE IF CharCode(Head(a)) # CharCode(Head(b))
       THEN CharCode(Head(a)) < CharCode(Head(b))
       ELSE StrLess(Tail(a), Tail(b))

\* String.prototype.includes
Includes(str, sub) ==
  \E i \in 0 .. (Len(str) - Len(sub)) :
     \A j \in 1 .. Len(sub) : str[i + j] = sub[j]

getCollisionKey(idA, idB) ==
  IF StrLess(idA, idB) THEN idA \o << "|" >> \o idB
  ELSE idB \o << "|" >> \o idA

\* previousKey.split("|"): the parts before and after the first "|" (ids hold none).
SplitKey(key) ==
  LET bar == CHOOSE i \in DOMAIN key : key[i] = "|" /\ \A j \in 1 .. (i - 1) : key[j] # "|"
  IN  << SubSeq(key, 1, bar - 1), SubSeq(key, bar + 1, Len(key)) >>

----------------------------------------------------------------------------
(* PhysicsEngine (extended): the working state an operation threads       *)
(* through its steps                                                      *)

Undefined == [undefined |-> TRUE]

\* No iteration of the loop of sub-steps has begun.
NoSteps == [steps |-> 0, elapsed |-> 0, stepTimes |-> {}]

World ==
  [objs             |-> objs,
   gameObjects      |-> gameObjects,
   rigidBodies      |-> rigidBodies,
   activeCollisions |-> activeCollisions,
   spatialHash      |-> spatialHash,
   sleepingObjects  |-> sleepingObjects,
   emitted          |-> << >>,
   threw            |-> FALSE,
   ran              |-> NoSteps]

emit(w, event) == [w EXCEPT !.emitted = Append(@, event)]

ObjectEvent(type, id) == [type |-> type, object |-> id]

Registered(w, id) == Contains(w.gameObjects, id)

----------------------------------------------------------------------------
(* Filters *)

shouldSimulateObject(o) ==
  /\ o.active
  /\ o.hasPhysics
  /\ ~o.isStatic
  /\ (~config.enableSleeping \/ ~o.isSleeping)

\* shouldObjectsCollide with || for &&: one direction of the layer test is enough.
shouldObjectsCollide_EitherWay(objA, objB) ==
  IF ~objA.hasPhysics \/ ~objB.hasPhysics THEN FALSE
  ELSE LET aCanCollideWithB == objB.collisionLayers \cap objA.collisionMask # {}
           bCanCollideWithA == objA.collisionLayers \cap objB.collisionMask # {}
       IN  aCanCollideWithB \/ bCanCollideWithA

shouldObjectsCollide(objA, objB) ==
  IF ~objA.hasPhysics \/ ~objB.hasPhysics THEN FALSE
  ELSE LET aCanCollideWithB == objB.collisionLayers \cap objA.collisionMask # {}
           bCanCollideWithA == objA.collisionLayers \cap objB.collisionMask # {}
       IN  aCanCollideWithB /\ bCanCollideWithA

\* shouldCheckCollision without the test of collisionGroup.
shouldCheckCollision_AnyGroup(objA, objB) ==
  IF ~objA.active \/ ~objB.active THEN FALSE
  ELSE IF ~objA.hasPhysics \/ ~objB.hasPhysics THEN FALSE
  ELSE IF objA.isStatic /\ objB.isStatic THEN FALSE
  ELSE IF ~shouldObjectsCollide(objA, objB) THEN FALSE
  ELSE IF config.enableSleeping /\ objA.isSleeping /\ objB.isSleeping THEN FALSE
  ELSE TRUE

shouldCheckCollision(objA, objB) ==
  IF ~objA.active \/ ~objB.active THEN FALSE
  ELSE IF ~objA.hasPhysics \/ ~objB.hasPhysics THEN FALSE
  ELSE IF objA.isStatic /\ objB.isStatic THEN FALSE
  ELSE IF ~shouldObjectsCollide(objA, objB) THEN FALSE
  ELSE IF objA.collisionGroup # "" /\ objA.collisionGroup = objB.collisionGroup THEN FALSE
  ELSE IF config.enableSleeping /\ objA.isSleeping /\ objB.isSleeping THEN FALSE
  ELSE TRUE

----------------------------------------------------------------------------
(* Forces and integration *)

\* Math.exp(-damping * dt) to first order, in thousandths.  The bodies of every
\* scenario below are built without a material, so both damping
\* coefficients are the constructor's default 0 and velocities are not decayed.
applyDamping(o, dt) ==
  LET lin == IF o.linearDamping > 0
             THEN Vec(Quot(o.velocity.x * (1000 - o.linearDamping * dt), 1000),
                      Quot(o.velocity.y * (1000 - o.linearDamping * dt), 1000))
             ELSE o.velocity
      ang == IF o.angularDamping > 0
             THEN Quot(o.angularVelocity * (1000 - o.angularDamping * dt), 1000)
             ELSE o.angularVelocity
  IN  [o EXCEPT !.velocity = lin, !.angularVelocity = ang]

applyExternalForcesTo(o, dt) ==
  IF ~shouldSimulateObject(o) THEN o
  ELSE LET g == IF o.affectedByGravity
                THEN applyForce(o, multiply(gravity, o.mass)) ELSE o
           d == applyDamping(g, dt)
           c == FoldSeq(applyForce, d, d.customForces)
       IN  [c EXCEPT !.customForces = << >>]

applyExternalForces(w, dt) ==
  LET Step(ww, id) == [ww EXCEPT !.objs[id] = applyExternalForcesTo(@, dt)]
  IN  FoldSeq(Step, w, w.gameObjects)

MaxVelocity == 400000

TwoPi == 6283

\* speed > maxVelocity; compared in whole pixels so that the squares stay small.
TooFast(v) ==
  \/ Abs(v.x) > MaxVelocity
  \/ Abs(v.y) > MaxVelocity
  \/ magnitudeSquared(Vec(Quot(v.x, 200), Quot(v.y, 200)))
       > (MaxVelocity \div 200) * (MaxVelocity \div 200)

ClampSpeed(v) ==
  IF TooFast(v)
  THEN LET speed == magnitude(Vec(Quot(v.x, 200), Quot(v.y, 200)))
       IN  Vec(Quot(v.x * (MaxVelocity \div 200), speed),
               Quot(v.y * (MaxVelocity \div 200), speed))
  ELSE v

integrateObject(o, dt) ==
  IF ~o.hasPhysics THEN o
  ELSE LET acceleration ==
             IF o.mass > 0
             THEN Vec(o.acceleration.x + Quot(o.force.x, o.mass),
                      o.acceleration.y + Quot(o.force.y, o.mass))
             ELSE o.acceleration
           velocity == ClampSpeed(add(o.velocity, multiply(acceleration, dt)))
           angularVelocity == o.angularVelocity + o.angularAcceleration * dt
           rotation == o.rotation + angularVelocity * dt
       IN  [o EXCEPT !.velocity = velocity,
                     !.position = add(o.position, multiply(velocity, dt)),
                     !.angularVelocity = angularVelocity,
                     !.rotation = rotation - TwoPi * Quot(rotation, TwoPi),
                     !.force = Zero,
                     !.angularAcceleration = 0]

integratePhysics(w, dt) ==
  LET Step(ww, id) ==
        IF shouldSimulateObject(ww.objs[id])
        THEN [ww EXCEPT !.objs[id] = integrateObject(@, dt)]
        ELSE ww
  IN  FoldSeq(Step, w, w.gameObjects)

----------------------------------------------------------------------------
(* Joints *)

resolveDistanceJoint(w, joint) ==
  LET objA == w.objs[joint.objectA]
      objB == w.objs[joint.objectB]
      posA == add(objA.position, joint.anchorA)
      posB == add(objB.position, joint.anchorB)
      delta == subtract(posB, posA)
      currentLength == magnitude(delta)
      difference == currentLength - joint.targetLength
      normal == normalize(delta)
      springForce == scaleByUnit(normal, difference * joint.stiffness * (-1))
      relativeVelocity == subtract(objB.velocity, objA.velocity)
      dampingForce ==
        scaleByUnit(normal, Quot(dot(relativeVelocity, normal), 1000) * joint.damping * (-1))
      totalForce == add(springForce, dampingForce)
      forcedA == IF ~objA.isStatic THEN applyForce(objA, multiply(totalForce, -1)) ELSE objA
      forcedB == IF ~objB.isStatic THEN applyForce(objB, totalForce) ELSE objB
  IN  IF Abs(difference) < 2 THEN w
      ELSE [w EXCEPT !.objs[joint.objectA] = forcedA, !.objs[joint.objectB] = forcedB]

\* resolveJoints without the test that both objects are in gameObjects.
resolveJoints_Unchecked(w, dt) ==
  LET Step(ww, joint) ==
        IF ~joint.enabled THEN ww
        ELSE IF \/ ~ww.objs[joint.objectA].hasPhysics
                \/ ~ww.objs[joint.objectB].hasPhysics THEN ww
        ELSE IF joint.type = "distance" THEN resolveDistanceJoint(ww, joint)
        ELSE ww
  IN  FoldSeq(Step, w, joints)

resolveJoints(w, dt) ==
  LET Step(ww, joint) ==
        IF ~joint.enabled THEN ww
        ELSE IF \/ ~Registered(ww, joint.objectA)
                \/ ~Registered(ww, joint.objectB)
                \/ ~ww.objs[joint.objectA].hasPhysics
                \/ ~ww.objs[joint.objectB].hasPhysics THEN ww
        ELSE IF joint.type = "distance" THEN resolveDistanceJoint(ww, joint)
        ELSE ww   \* resolveRevoluteJoint, resolveWeldJoint: empty bodies
  IN  FoldSeq(Step, w, joints)

\* this.constraints is never added to, and its three resolvers have empty bodies.
resolveConstraints(w, dt) == w

----------------------------------------------------------------------------
(* Spatial hash *)

\* The cells a box overlaps, in the order of the two nested loops (x outer).
CellsOf(o) ==
  LET bounds == getBounds(o)
      size   == config.spatialHashCellSize
      minX   == Floor(bounds.left, size)
      maxX   == Floor(bounds.right, size)
      minY   == Floor(bounds.top, size)
      maxY   == Floor(bounds.bottom, size)
      ny     == maxY - minY + 1
  IN  [k \in 1 .. ((maxX - minX + 1) * ny) |->
         << minX + ((k - 1) \div ny), minY + ((k - 1) % ny) >>]

EmptyHash == << >>

updateSpatialHash(w) ==
  LET Insert(h, id, cell) ==
        IF cell \in DOMAIN h THEN [h EXCEPT ![cell] = AddUnique(@, id)]
        ELSE h @@ (cell :> << id >>)
      Step(h, id) ==
        IF ~w.objs[id].active THEN h
        ELSE LET Put(hh, cell) == Insert(hh, id, cell)
             IN  FoldSeq(Put, h, CellsOf(w.objs[id]))
  IN  [w EXCEPT !.spatialHash = FoldSeq(Step, EmptyHash, w.gameObjects)]

getNearbyObjects(w, o) ==
  IF ~config.broadPhaseOptimization THEN w.gameObjects
  ELSE LET Step(near, cell) ==
             IF cell \in DOMAIN w.spatialHash
             THEN FoldSeq(AddUnique, near, w.spatialHash[cell])
             ELSE near
       IN  FoldSeq(Step, << >>, CellsOf(o))

----------------------------------------------------------------------------
(* Continuous collision detection *)

\* The sampling loop tests a copy of the moving object made with an object
\* spread, { ...gameObject, position }.  A spread copies the instance's own
\* fields and none of the methods of the GameObject class, so the first call
\* checkCollision(testObject, other) fails in checkAABBCollision at
\* objA.getBounds() with a TypeError, which nothing in update() catches.  The
\* call is reached for the first candidate other than the object itself that
\* passes shouldCheckCollision; without such a candidate the loop does nothing.
applyContinuousCollisionDetection(w, id, dt) ==
  LET o         == w.objs[id]
      threshold == Max(o.size.x, o.size.y)
      nearby    == getNearbyObjects(w, o)
  IN  IF ~config.enableCCD \/ ~o.hasPhysics THEN w
      ELSE IF magnitudeSquared(o.velocity) * dt * dt <= threshold * threshold THEN w
      ELSE IF \E i \in DOMAIN nearby :
                 /\ nearby[i] # id
                 /\ shouldCheckCollision(o, w.objs[nearby[i]])
           THEN [w EXCEPT !.threw = TRUE]
           ELSE w

ccdPass(w, dt) ==
  LET Step(ww, id) ==
        IF ww.threw \/ ~shouldSimulateObject(ww.objs[id]) THEN ww
        ELSE applyContinuousCollisionDetection(ww, id, dt)
  IN  IF config.enableCCD THEN FoldSeq(Step, w, w.gameObjects) ELSE w

----------------------------------------------------------------------------
(* Collision resolution (extended engine) *)

\* x * invOwn / (invOwn + invOther) with getInverseMass = 0 for a static body
\* and 1/mass otherwise: for two non-static bodies this is x * mOther / (mOwn + mOther).
InverseMassShare(x, own, other) ==
  IF own.isStatic THEN 0
  ELSE IF other.isStatic THEN x
  ELSE Quot(x * other.mass, own.mass + other.mass)

snapToSurface(objA, objB, normal) ==
  IF objA.isStatic /\ ~objB.isStatic
  THEN LET boundsA == getBounds(objA)
           halfHeightB == objB.size.y \div 2
       IN  << objA,
              IF 10 * normal.y < -7
              THEN [objB EXCEPT !.position.y = boundsA.top - halfHeightB]
              ELSE IF 10 * normal.y > 7
              THEN [objB EXCEPT !.position.y = boundsA.bottom + halfHeightB]
              ELSE objB >>
  ELSE IF ~objA.isStatic /\ objB.isStatic
  THEN LET boundsB == getBounds(objB)
           halfHeightA == objA.size.y \div 2
       IN  << IF 10 * normal.y > 7
              THEN [objA EXCEPT !.position.y = boundsB.top - halfHeightA]
              ELSE IF 10 * normal.y < -7
              THEN [objA EXCEPT !.position.y = boundsB.bottom + halfHeightA]
              ELSE objA,
              objB >>
  ELSE << objA, objB >>

\* Returns the pair << objA, objB >> after positional separation.
separateObjects(objA, objB, normal, penetration) ==
  LET bothStatic  == objA.isStatic /\ objB.isStatic
      separationA == IF objA.isStatic THEN 0
                     ELSE IF objB.isStatic THEN penetration
                     ELSE InverseMassShare(penetration, objA, objB)
      separationB == IF objA.isStatic THEN penetration
                     ELSE IF objB.isStatic THEN 0
                     ELSE InverseMassShare(penetration, objB, objA)
      movedA == IF separationA > 0
                THEN [objA EXCEPT !.position = add(objA.position, multiply(normal, separationA))]
                ELSE objA
      movedB == IF separationB > 0
                THEN [objB EXCEPT !.position = add(objB.position, multiply(normal, -separationB))]
                ELSE objB
  IN  IF bothStatic THEN << objA, objB >>
      ELSE IF 10 * Abs(normal.y) > 7 THEN snapToSurface(movedA, movedB, normal)
      ELSE << movedA, movedB >>

applyImpulseToObject(o, impulse) ==
  IF ~o.hasPhysics \/ o.isStatic THEN o
  ELSE [o EXCEPT !.velocity = add(o.velocity, impulse)]

\* Returns the pair << objA, objB >> after the velocity impulse.
resolveVelocities(objA, objB, normal) ==
  LET relativeVelocity      == subtract(objB.velocity, objA.velocity)
      separatingVelocity    == dot(relativeVelocity, normal)
      restitution           == Min(objA.restitution, objB.restitution)
      newSeparatingVelocity == Quot((-separatingVelocity) * restitution, 100)
      deltaVelocity         == newSeparatingVelocity - separatingVelocity
      impulseA == multiply(normal, -InverseMassShare(deltaVelocity, objA, objB))
      impulseB == multiply(normal, InverseMassShare(deltaVelocity, objB, objA))
  IN  IF separatingVelocity > 0 THEN << objA, objB >>
      ELSE IF objA.isStatic /\ objB.isStatic THEN << objA, objB >>
      ELSE << IF ~objA.isStatic THEN applyImpulseToObject(objA, impulseA) ELSE objA,
              IF ~objB.isStatic THEN applyImpulseToObject(objB, impulseB) ELSE objB >>

\* wakeOnCollision without the test of isSleeping.
wakeOnCollision_Always(w, id) ==
  emit([w EXCEPT !.objs[id].isSleeping = FALSE], ObjectEvent("object-wake", id))

wakeOnCollision(w, id) ==
  IF w.objs[id].isSleeping
  THEN emit([w EXCEPT !.objs[id].isSleeping = FALSE], ObjectEvent("object-wake", id))
  ELSE w

\* resolveVelocities on the pair separateObjects returned.
resolveVelocitiesOf(pair, normal) == resolveVelocities(pair[1], pair[2], normal)

\* The two objects of the pair, back in the world.
putPair(w, idA, idB, pair) == [w EXCEPT !.objs[idA] = pair[1], !.objs[idB] = pair[2]]

wakeBoth(w, idA, idB) ==
  IF config.enableSleeping THEN wakeOnCollision(wakeOnCollision(w, idA), idB) ELSE w

resolveCollision(w, idA, idB, collision) ==
  IF ~w.objs[idA].hasPhysics \/ ~w.objs[idB].hasPhysics THEN w
  ELSE wakeBoth(putPair(w, idA, idB,
                        resolveVelocitiesOf(separateObjects(w.objs[idA], w.objs[idB],
                                                            collision.normal,
                                                            collision.penetration),
                                            collision.normal)),
                idA, idB)

----------------------------------------------------------------------------
(* Collision detection and events *)

CollisionEventOf(type, collision) ==
  [type |-> type, objectA |-> collision.objectA, objectB |-> collision.objectB]

\* The narrow-phase results of one sub-step, in the order they are pushed.
detectCollisions(w) ==
  LET Inner(objA) ==
        LET nearbyObjects == IF config.broadPhaseOptimization
                             THEN getNearbyObjects(w, objA) ELSE w.gameObjects
            Step(found, idB) ==
              LET objB == w.objs[idB]
              IN  IF ~StrLess(objA.id, objB.id) THEN found
                  ELSE IF ~shouldCheckCollision(objA, objB) THEN found
                  ELSE IF checkCollision(objA, objB) = Null THEN found
                  ELSE Append(found, checkCollision(objA, objB))
        IN  FoldSeq(Step, << >>, nearbyObjects)
      Outer(found, idA) ==
        IF ~w.objs[idA].active \/ ~w.objs[idA].hasPhysics THEN found
        ELSE found \o Inner(w.objs[idA])
  IN  FoldSeq(Outer, << >>, w.gameObjects)

\* collisions.sort((a, b) => b.penetration - a.penetration): stable, deepest first.
sortByPenetration(collisions) ==
  LET Insert(sorted, c) ==
        LET k == Cardinality({i \in DOMAIN sorted : sorted[i].penetration >= c.penetration})
        IN  SubSeq(sorted, 1, k) \o << c >> \o SubSeq(sorted, k + 1, Len(sorted))
  IN  FoldSeq(Insert, << >>, collisions)

\* The trigger test with && for ||: a pair is a trigger pair only when both are triggers.
isTriggerPair_Both(objA, objB) == objA.isTrigger /\ objB.isTrigger

isTriggerPair(objA, objB) == objA.isTrigger \/ objB.isTrigger

\* if (!wasPreviouslyColliding) this.emit(type, collision)
emitIfNew(w, type, collision, wasPrevious) ==
  IF ~wasPrevious THEN emit(w, CollisionEventOf(type, collision)) ELSE w

handleTriggerCollision(w, collision, wasPrevious) ==
  emitIfNew(w, "trigger-enter", collision, wasPrevious)

handleSolidCollision(w, collision, wasPrevious) ==
  emitIfNew(resolveCollision(w, collision.objectA, collision.objectB, collision),
            "collision-start", collision, wasPrevious)

detectEndedCollisions(w, currentCollisions) ==
  LET currentCollisionKeys ==
        {getCollisionKey(currentCollisions[i].objectA, currentCollisions[i].objectB) :
           i \in DOMAIN currentCollisions}
      Step(ww, previousKey) ==
        IF previousKey \in currentCollisionKeys THEN ww
        ELSE LET ids  == SplitKey(previousKey)
                 gone == [ww EXCEPT !.activeCollisions = Without(@, previousKey)]
                 ended == [objectA |-> ids[1], objectB |-> ids[2]]
             IN  IF Registered(ww, ids[1]) /\ Registered(ww, ids[2])
                 THEN IF isTriggerPair(ww.objs[ids[1]], ww.objs[ids[2]])
                      THEN emit(gone, CollisionEventOf("trigger-exit", ended))
                      ELSE emit(gone, CollisionEventOf("collision-end", ended))
                 ELSE gone
  IN  FoldSeq(Step, w, w.activeCollisions)

\* removeObject(id)
removeObject(w, id) ==
  [w EXCEPT !.gameObjects = Without(@, id),
            !.rigidBodies = @ \ {id},
            !.activeCollisions = SelectSeq(@, LAMBDA key : ~Includes(key, id))]

\* The listener the caller registered for the enter events, if any, runs inside
\* emit: arg.removes names the member of the pair it passes to removeObject.
heardByListener(w, collision, wasPrevious) ==
  IF wasPrevious \/ "removes" \notin DOMAIN arg THEN w
  ELSE IF arg.removes = "objectA" THEN removeObject(w, collision.objectA)
  ELSE removeObject(w, collision.objectB)

processCollisions(w, collisions) ==
  LET Step(ww, collision) ==
        IF ~Registered(ww, collision.objectA) \/ ~Registered(ww, collision.objectB) THEN ww
        ELSE LET collisionKey == getCollisionKey(collision.objectA, collision.objectB)
                 wasPreviouslyColliding == Contains(ww.activeCollisions, collisionKey)
                 handled ==
                   IF isTriggerPair(ww.objs[collision.objectA], ww.objs[collision.objectB])
                   THEN handleTriggerCollision(ww, collision, wasPreviouslyColliding)
                   ELSE handleSolidCollision(ww, collision, wasPreviouslyColliding)
             IN  [heardByListener(handled, collision, wasPreviouslyColliding)
                    EXCEPT !.activeCollisions = AddUnique(@, collisionKey)]
      sorted == sortByPenetration(collisions)
  IN  detectEndedCollisions(FoldSeq(Step, w, sorted), sorted)

handleCollisions(w) == processCollisions(w, detectCollisions(w))

----------------------------------------------------------------------------
(* Post-processing, sleeping, world bounds *)

\* Every number of the grid is finite and not NaN.
isValidPhysicsState(o) ==
  \/ ~o.hasPhysics
  \/ {o.position.x, o.position.y, o.velocity.x, o.velocity.y, o.force.x, o.force.y} \subseteq Int

resetPhysicsState(o) ==
  IF ~o.hasPhysics THEN o
  ELSE [o EXCEPT !.velocity = Zero, !.force = Zero,
                 !.angularVelocity = 0, !.angularAcceleration = 0]

\* 0.01 on the velocity grid.
VelocityEpsilon == 2

postProcessObject(o) ==
  IF ~o.hasPhysics THEN o
  ELSE LET valid == IF isValidPhysicsState(o) THEN o ELSE resetPhysicsState(o)
       IN  [valid EXCEPT
              !.velocity.x = IF Abs(valid.velocity.x) < VelocityEpsilon THEN 0 ELSE @,
              !.velocity.y = IF Abs(valid.velocity.y) < VelocityEpsilon THEN 0 ELSE @]

postProcessPhysics(w, dt) ==
  LET Step(ww, id) == [ww EXCEPT !.objs[id] = postProcessObject(@)]
  IN  FoldSeq(Step, w, w.gameObjects)

\* 0.01 rad/s on the angle grid.
AngularEpsilon == 10

\* sleepTimer > 60
SleepTicks == 60

IsSlow(o) ==
  /\ magnitudeSquared(o.velocity) < config.velocityThreshold * config.velocityThreshold
  /\ Abs(o.angularVelocity) < AngularEpsilon

SleepDue(sleepTimer) == sleepTimer > SleepTicks

updateSleepState(w, id) ==
  LET o        == w.objs[id]
      wasAwake == ~o.isSleeping
      timer    == o.sleepTimer + 1
  IN  IF ~o.hasPhysics \/ o.isStatic THEN w
      ELSE IF IsSlow(o)
      THEN IF SleepDue(timer) /\ wasAwake
           THEN emit([w EXCEPT !.objs[id].sleepTimer = timer,
                               !.objs[id].isSleeping = TRUE,
                               !.objs[id].velocity = Zero,
                               !.objs[id].angularVelocity = 0,
                               !.sleepingObjects = @ + 1],
                     ObjectEvent("object-sleep", id))
           ELSE [w EXCEPT !.objs[id].sleepTimer = timer]
      ELSE LET woken == IF ~wasAwake
                        THEN [emit(w, ObjectEvent("object-wake", id))
                                EXCEPT !.sleepingObjects = @ - 1]
                        ELSE w
           IN  [woken EXCEPT !.objs[id].sleepTimer = 0, !.objs[id].isSleeping = FALSE]

updateSleepStates(w) == FoldSeq(updateSleepState, w, w.gameObjects)

\* Math.abs(v) * 0.5; an odd grid value is halved toward zero.
HalfAbs(v) == Abs(v) \div 2

applyWorldBoundsTo(w, id) ==
  LET o      == w.objs[id]
      bounds == getBounds(o)
      wb     == worldBounds
      horizontal ==
        IF bounds.left < wb.left
        THEN IF wb.wrap
             THEN [o |-> [o EXCEPT !.position.x = wb.right - o.size.x \div 2], bounced |-> FALSE]
             ELSE [o |-> [o EXCEPT !.position.x = wb.left + o.size.x \div 2,
                                   !.velocity.x = HalfAbs(o.velocity.x)], bounced |-> TRUE]
        ELSE IF bounds.right > wb.right
        THEN IF wb.wrap
             THEN [o |-> [o EXCEPT !.position.x = wb.left + o.size.x \div 2], bounced |-> FALSE]
             ELSE [o |-> [o EXCEPT !.position.x = wb.right - o.size.x \div 2,
                                   !.velocity.x = -HalfAbs(o.velocity.x)], bounced |-> TRUE]
        ELSE [o |-> o, bounced |-> FALSE]
      h == horizontal.o
      vertical ==
        IF bounds.top < wb.top
        THEN [o |-> [h EXCEPT !.position.y = wb.top + h.size.y \div 2,
                              !.velocity.y = HalfAbs(h.velocity.y)], bounced |-> TRUE]
        ELSE IF bounds.bottom > wb.bottom
        THEN IF wb.wrap
             THEN [o |-> [h EXCEPT !.position.y = wb.top + h.size.y \div 2],
                   bounced |-> horizontal.bounced]
             ELSE [o |-> [h EXCEPT !.position.y = wb.bottom - h.size.y \div 2,
                                   !.velocity.y = -HalfAbs(h.velocity.y)], bounced |-> TRUE]
        ELSE [o |-> h, bounced |-> horizontal.bounced]
  IN  IF ~o.hasPhysics \/ o.isStatic THEN w
      ELSE IF vertical.bounced
           THEN emit([w EXCEPT !.objs[id] = vertical.o], ObjectEvent("bounds-exit", id))
           ELSE [w EXCEPT !.objs[id] = vertical.o]

applyWorldBounds(w) ==
  IF worldBounds = Undefined THEN w
  ELSE FoldSeq(applyWorldBoundsTo, w, w.gameObjects)

----------------------------------------------------------------------------
(* update() *)

\* simulateStep after the forces and the CCD pass, up to handleCollisions.
integrateAndConstrain(forced, dt) ==
  IF forced.threw THEN forced
  ELSE resolveConstraints(resolveJoints(integratePhysics(forced, dt), dt), dt)

\* simulateStep up to, and not including, handleCollisions.
beforeCollisions(w, dt) ==
  integrateAndConstrain(ccdPass(applyExternalForces(w, dt), dt), dt)

\* simulateStep from handleCollisions on.
collideAndPostProcess(pre, dt) ==
  IF pre.threw THEN pre ELSE postProcessPhysics(handleCollisions(pre), dt)

simulateStep(w, dt) == collideAndPostProcess(beforeCollisions(w, dt), dt)

\* One more iteration of the loop of sub-steps begins.
stepBegins(w, dt) ==
  [w EXCEPT !.ran = [steps     |-> @.steps + 1,
                     elapsed   |-> @.elapsed + dt,
                     stepTimes |-> @.stepTimes \cup {dt}]]

RECURSIVE simulateSteps(_, _, _)
\* for (let step = 0; step < actualSubsteps; step++) this.simulateStep(stepTime)
simulateSteps(w, n, dt) ==
  IF n <= 0 \/ w.threw THEN w
  ELSE simulateSteps(simulateStep(stepBegins(w, dt), dt), n - 1, dt)

clampedDeltaTime(deltaTime) == Min(deltaTime, config.maxDeltaTime)

\* actualSubsteps without the limit maxSubsteps.
actualSubsteps_Unlimited(deltaTime) ==
  Ceil(clampedDeltaTime(deltaTime), config.targetTimeStep)

actualSubsteps(deltaTime) ==
  Min(Ceil(clampedDeltaTime(deltaTime), config.targetTimeStep), config.maxSubsteps)

stepTime(deltaTime) == Quot(clampedDeltaTime(deltaTime), actualSubsteps(deltaTime))

\* update() without the test of isPaused.
Skips_WhilePaused(deltaTime) == clampedDeltaTime(deltaTime) <= 0

\* update() returns at once: the engine is paused or the clamped time is not positive.
Skips(deltaTime) == isPaused \/ clampedDeltaTime(deltaTime) <= 0

\* if (this.config.broadPhaseOptimization) this.updateSpatialHash()
refreshSpatialHash(stepped) ==
  IF stepped.threw THEN stepped
  ELSE IF config.broadPhaseOptimization THEN updateSpatialHash(stepped)
  ELSE stepped

\* The sub-steps and the spatial-hash refresh: the state updateSleepStates reads.
beforeSleep(w, deltaTime) ==
  refreshSpatialHash(simulateSteps(w, actualSubsteps(deltaTime), stepTime(deltaTime)))

\* The end of update(): sleep states, then world bounds.
sleepAndBound(pre) ==
  IF pre.threw THEN pre
  ELSE applyWorldBounds(IF config.enableSleeping THEN updateSleepStates(pre) ELSE pre)

update(w, deltaTime) ==
  IF Skips(deltaTime) THEN w ELSE sleepAndBound(beforeSleep(w, deltaTime))

----------------------------------------------------------------------------
(* Object management, forces and fields *)

addObject(w, id) ==
  IF ~w.objs[id].hasPhysics THEN w
  ELSE [w EXCEPT !.gameObjects = AddUnique(@, id), !.rigidBodies = @ \cup {id}]

applyWind(w, force) ==
  LET Step(ww, id) ==
        LET o == ww.objs[id]
            area == Quot(o.size.x, 200) * Quot(o.size.y, 200)
        IN  IF ~shouldSimulateObject(o) THEN ww
            ELSE [ww EXCEPT !.objs[id] =
                    applyForce(o, Vec(Quot(force.x * area, 1000), Quot(force.y * area, 1000)))]
  IN  FoldSeq(Step, w, w.gameObjects)

\* mode "explosion"; the falloff 1 - distance/radius is kept as a quotient.
applyRadialForce(w, center, force, radius) ==
  LET Step(ww, id) ==
        LET o == ww.objs[id]
            dist == distance(o.position, center)
            direction == normalize(subtract(o.position, center))
            strength == Quot(force * (radius - dist) * o.mass, radius)
        IN  IF ~shouldSimulateObject(o) THEN ww
            ELSE IF dist > radius \/ dist < 20 THEN ww
            ELSE [ww EXCEPT !.objs[id] = applyForce(o, scaleByUnit(direction, strength))]
  IN  FoldSeq(Step, w, w.gameObjects)

\* this.gameObjects, this.rigidBodies, this.activeCollisions and this.spatialHash
\* after clear(); clear() also empties this.joints.
clear(w) ==
  [w EXCEPT !.gameObjects = << >>, !.rigidBodies = {},
            !.activeCollisions = << >>, !.spatialHash = EmptyHash]

\* One entry of the exported objects: the fields of a GameObject the export names.
exportedObject(o) ==
  [id |-> o.id, position |-> o.position, rotation |-> o.rotation, size |-> o.size,
   physics |-> o, active |-> o.active]

exportWorldState(w) ==
  [objects     |-> [i \in DOMAIN w.gameObjects |-> exportedObject(w.objs[w.gameObjects[i]])],
   gravity     |-> gravity,
   config      |-> config,
   worldBounds |-> worldBounds]

----------------------------------------------------------------------------
(* Objects and engines the specifications start from *)

P == << "p" >>

P2 == << "p", "2" >>

Q == << "q" >>

Ids == {P, P2, Q}

\* new GameObject({id, position, size: (10, 10), physics: {mass: 1, restitution: 0,
\* isStatic: false, velocity: (0, 0), acceleration: (0, 0)}}): the constructor's defaults.
NewObject(id, x, y) ==
  [id |-> id, position |-> Vec(x, y), size |-> Vec(Px(10), Px(10)), rotation |-> 0,
   active |-> TRUE, hasPhysics |-> TRUE,
   mass |-> 1, velocity |-> Zero, acceleration |-> Zero, force |-> Zero,
   restitution |-> 0, isStatic |-> FALSE, isTrigger |-> FALSE,
   affectedByGravity |-> TRUE, linearDamping |-> 0, angularDamping |-> 0,
   angularVelocity |-> 0, angularAcceleration |-> 0,
   isSleeping |-> FALSE, sleepTimer |-> 0,
   collisionLayers |-> {1}, collisionMask |-> {1}, collisionGroup |-> "",
   customForces |-> << >>]

\* new PhysicsEngine(gravity, {targetTimeStep: 1, maxDeltaTime: 2, ...}): the other
\* fields are the constructor's defaults (velocityThreshold 0.5, cell size 100).
NewConfig(sleeping, ccd, broad) ==
  [maxSubsteps |-> 4, maxDeltaTime |-> 2, targetTimeStep |-> 1,
   velocityThreshold |-> 100,
   enableSleeping |-> sleeping, enableCCD |-> ccd,
   broadPhaseOptimization |-> broad, spatialHashCellSize |-> Px(100)]

Configs ==
  {NewConfig(TRUE, FALSE, TRUE),     \* the defaults
   NewConfig(TRUE, FALSE, FALSE),
   NewConfig(TRUE, TRUE, TRUE),
   NewConfig(FALSE, TRUE, FALSE)}

Down == Vec(0, Px(1))

Box20 == [left |-> -Px(20), right |-> Px(20), top |-> -Px(20), bottom |-> Px(20), wrap |-> FALSE]

\* A static body p (built with a velocity below 0.01) under a dynamic body q,
\* joined by a distance joint, inside world bounds, with gravity; p2 has no physics.
StaticScene ==
  [objs |-> (P  :> [NewObject(P, 0, Px(10)) EXCEPT !.isStatic = TRUE, !.velocity = Vec(1, 0)]
          @@ P2 :> [NewObject(P2, Px(15), Px(15)) EXCEPT !.hasPhysics = FALSE]
          @@ Q  :> [NewObject(Q, 0, Px(2)) EXCEPT !.customForces = << Vec(Px(1), 0) >>]),
   gameObjects |-> << P, Q >>,
   joints |-> << [id |-> "j1", type |-> "distance", objectA |-> P, objectB |-> Q,
                  anchorA |-> Zero, anchorB |-> Zero, targetLength |-> Px(10),
                  stiffness |-> 1, damping |-> 1, enabled |-> TRUE] >>,
   gravity |-> Down,
   worldBounds |-> Box20]

\* Three overlapping dynamic bodies: p-q passes the layer test in one direction only,
\* p-p2 in neither, p2-q in both.
LayerScene ==
  [objs |-> (P  :> [NewObject(P, 0, 0) EXCEPT !.collisionLayers = {1}, !.collisionMask = {2}]
          @@ P2 :> [NewObject(P2, Px(8), 0) EXCEPT !.collisionLayers = {4}, !.collisionMask = {2}]
          @@ Q  :> [NewObject(Q, Px(4), 0) EXCEPT !.collisionLayers = {2}, !.collisionMask = {4},
                                                 !.restitution = 100]),
   gameObjects |-> << P, P2, Q >>,
   joints |-> << >>,
   gravity |-> Zero,
   worldBounds |-> Undefined]

\* A static trigger area p2 overlapped by a dynamic body q; p is a dynamic body apart.
TriggerScene ==
  [objs |-> (P  :> NewObject(P, -Px(30), 0)
          @@ P2 :> [NewObject(P2, 0, 0) EXCEPT !.isStatic = TRUE, !.isTrigger = TRUE,
                                               !.affectedByGravity = FALSE]
          @@ Q  :> [NewObject(Q, Px(4), 0) EXCEPT !.velocity = Vec(Px(1), 0)]),
   gameObjects |-> << P, P2, Q >>,
   joints |-> << >>,
   gravity |-> Zero,
   worldBounds |-> Undefined]

\* The bodies and the joint of StaticScene before p is added: createDistanceJoint
\* takes two GameObjects and does not look them up.
JointScene == [StaticScene EXCEPT !.gameObjects = << Q >>]

Scenes == {StaticScene, LayerScene, TriggerScene, JointScene}

NoBoxes ==
  /\ boxA = Undefined /\ boxB = Undefined
  /\ hitAB = Null /\ hitBA = Null /\ resolved = Undefined

NoDetect ==
  /\ NoBoxes
  /\ phase = "none"
  /\ arg = Undefined /\ ret = Undefined

InitEngine(scene, cfg) ==
  /\ objs = scene.objs
  /\ created = scene.objs
  /\ gameObjects = scene.gameObjects
  /\ rigidBodies = Range(scene.gameObjects)
  /\ activeCollisions = << >>
  /\ joints = scene.joints
  /\ gravity = scene.gravity
  /\ config = cfg
  /\ worldBounds = scene.worldBounds
  /\ isPaused = FALSE
  /\ spatialHash = EmptyHash
  /\ sleepingObjects = 0
  /\ emitted = << >>
  /\ threw = FALSE
  /\ lastOp = "new"
  /\ lastId = << >>
  /\ lastDt = 0
  /\ ran = NoSteps
  /\ entered = {}
  /\ alternationBroken = FALSE
  /\ lowStreak = [id \in Ids |-> 0]
  /\ metPairs = {}
  /\ touched = {}
  /\ missedPairs = {}
  /\ barredPairs = {}
  /\ poked = {}
  /\ due = {}
  /\ calls = 0
  /\ updates = 0

Init ==
  /\ \E scene \in Scenes, cfg \in Configs : InitEngine(scene, cfg)
  /\ NoDetect

----------------------------------------------------------------------------
(* What a listener registered with on() for every event type has seen *)

EnterTypes == {"collision-start", "trigger-enter"}

ExitTypes == {"collision-end", "trigger-exit"}

EventKey(event) == getCollisionKey(event.objectA, event.objectB)

\* The pairs inside after the events, and whether two enters or two exits of
\* one pair followed each other.
TrackEvents(inside, broken, events) ==
  LET Step(h, event) ==
        IF event.type \in EnterTypes
        THEN [inside |-> h.inside \cup {EventKey(event)},
              broken |-> h.broken \/ EventKey(event) \in h.inside]
        ELSE IF event.type \in ExitTypes
        THEN [inside |-> h.inside \ {EventKey(event)},
              broken |-> h.broken \/ EventKey(event) \notin h.inside]
        ELSE h
  IN  FoldSeq(Step, [inside |-> inside, broken |-> broken], events)

\* The engine fields an operation leaves as the world w.
Commit(w) ==
  /\ objs' = w.objs
  /\ gameObjects' = w.gameObjects
  /\ rigidBodies' = w.rigidBodies
  /\ activeCollisions' = w.activeCollisions
  /\ spatialHash' = w.spatialHash
  /\ sleepingObjects' = w.sleepingObjects
  /\ emitted' = w.emitted
  /\ threw' = w.threw
  /\ ran' = w.ran

NoTrace == [handled |-> {}, touched |-> {}, missed |-> {}, barred |-> {}]

\* The keys of the registered pairs the double loop of handleCollisions accepts when
\* it runs over all objects (objA.id < objB.id, shouldCheckCollision) and whose
\* boxes overlap in the world w.
overlappingPairs(w) ==
  {getCollisionKey(idA, idB) : << idA, idB >> \in
     {pair \in Range(w.gameObjects) \X Range(w.gameObjects) :
        /\ w.objs[pair[1]].active /\ w.objs[pair[1]].hasPhysics
        /\ StrLess(pair[1], pair[2])
        /\ shouldCheckCollision(w.objs[pair[1]], w.objs[pair[2]])
        /\ checkCollision(w.objs[pair[1]], w.objs[pair[2]]) # Null}}

collisionKeys(found) ==
  {getCollisionKey(found[i].objectA, found[i].objectB) : i \in DOMAIN found}

\* The conditions a pair has to meet, apart from the layers, in the world w: both
\* bodies active, not both static, no shared non-empty collisionGroup, not both
\* asleep.
Admitted(w, idA, idB) ==
  /\ w.objs[idA].active /\ w.objs[idB].active
  /\ ~(w.objs[idA].isStatic /\ w.objs[idB].isStatic)
  /\ ~(w.objs[idA].collisionGroup # "" /\
        w.objs[idA].collisionGroup = w.objs[idB].collisionGroup)
  /\ ~(w.objs[idA].isSleeping /\ w.objs[idB].isSleeping)

\* The pairs found in the world pre and the bodies handleCollisions changed from
\* pre to post, added to the trace of the later sub-steps.
traceJoin(pre, found, post, rest) ==
  [handled |-> collisionKeys(found) \cup rest.handled,
   missed  |-> (overlappingPairs(pre) \ collisionKeys(found)) \cup rest.missed,
   barred  |-> {key \in collisionKeys(found) :
                  ~Admitted(pre, SplitKey(key)[1], SplitKey(key)[2])}
                 \cup rest.barred,
   touched |-> {id \in Range(pre.gameObjects) :
                  \/ post.objs[id].position # pre.objs[id].position
                  \/ post.objs[id].velocity # pre.objs[id].velocity}
                 \cup rest.touched]

RECURSIVE collisionTrace(_, _, _)
traceFrom(pre, n, dt) ==
  IF pre.threw THEN NoTrace
  ELSE traceJoin(pre, detectCollisions(pre), handleCollisions(pre),
                 collisionTrace(collideAndPostProcess(pre, dt), n - 1, dt))

\* What handleCollisions met and changed over the n sub-steps of simulateSteps(w, n, dt).
collisionTrace(w, n, dt) ==
  IF n = 0 \/ w.threw THEN NoTrace ELSE traceFrom(beforeCollisions(w, dt), n, dt)

Listen(tracked) ==
  /\ entered' = tracked.inside
  /\ alternationBroken' = tracked.broken

Trace(trace) ==
  /\ metPairs' = trace.handled
  /\ missedPairs' = trace.missed
  /\ barredPairs' = trace.barred
  /\ touched' = trace.touched

\* seen is the world updateSleepStates reads in this update().
Streaks(deltaTime, seen) ==
  lowStreak' =
    [id \in Ids |->
       IF Skips(deltaTime) THEN lowStreak[id]
       ELSE IF /\ ~seen.threw
               /\ config.enableSleeping
               /\ Contains(gameObjects, id)
               /\ objs[id].hasPhysics /\ ~objs[id].isStatic
               /\ IsSlow(seen.objs[id])
            THEN lowStreak[id] + 1
            ELSE 0]

AnySleeping == \E id \in Range(gameObjects) : objs[id].isSleeping

MaxSpeed == 4000

\* The caller keeps speeds and forces moderate: no body is driven beyond 20 per step.
Tame ==
  \A id \in Ids :
     /\ Abs(objs[id].velocity.x) <= MaxSpeed /\ Abs(objs[id].velocity.y) <= MaxSpeed
     /\ Abs(objs[id].force.x) <= MaxSpeed /\ Abs(objs[id].force.y) <= MaxSpeed

----------------------------------------------------------------------------
(* Operations of the engine's caller *)

\* physicsEngine.update(deltaTime)
Update(deltaTime, limit) ==
  /\ updates < limit
  /\ Tame
  /\ Commit(update(World, deltaTime))
  /\ Listen(TrackEvents(entered, alternationBroken, emitted'))
  /\ Trace(IF Skips(deltaTime) THEN NoTrace
           ELSE collisionTrace(World, actualSubsteps(deltaTime), stepTime(deltaTime)))
  /\ Streaks(deltaTime, beforeSleep(World, deltaTime))
  /\ lastOp' = "update"
  /\ lastId' = << >>
  /\ lastDt' = deltaTime
  /\ due' = poked
  /\ poked' = {}
  /\ updates' = updates + 1
  /\ UNCHANGED << joints, gravity, config, worldBounds, isPaused, created, calls >>
  /\ UNCHANGED detectVars

\* The part every other caller operation shares.
Call(op, limit) ==
  /\ calls < limit
  /\ Tame
  /\ calls' = calls + 1
  /\ lastOp' = op
  /\ emitted' = << >>
  /\ threw' = FALSE
  /\ UNCHANGED << joints, config, worldBounds, isPaused, created, lastDt, ran,
                  alternationBroken, lowStreak, metPairs, touched, missedPairs,
                  barredPairs, due,
                  updates >>
  /\ UNCHANGED detectVars

\* gameObject.applyForce(force)
ApplyForce(id, force, limit) ==
  /\ Call("applyForce", limit)
  /\ lastId' = id
  /\ objs' = [objs EXCEPT ![id] = applyForce(@, force)]
  /\ poked' = IF Contains(gameObjects, id) /\ objs[id].isSleeping /\ force # Zero
              THEN poked \cup {id} ELSE poked
  /\ UNCHANGED << gameObjects, rigidBodies, activeCollisions, gravity, spatialHash,
                  sleepingObjects, entered >>

\* gameObject.applyImpulse(impulse)
ApplyImpulse(id, impulse, limit) ==
  /\ Call("applyImpulse", limit)
  /\ lastId' = id
  /\ objs' = [objs EXCEPT ![id] = applyImpulse(@, impulse)]
  /\ poked' = IF Contains(gameObjects, id) /\ objs[id].isSleeping /\ impulse # Zero
              THEN poked \cup {id} ELSE poked
  /\ UNCHANGED << gameObjects, rigidBodies, activeCollisions, gravity, spatialHash,
                  sleepingObjects, entered >>

\* physicsEngine.setGravity(g)
SetGravity(g, limit) ==
  /\ Call("setGravity", limit)
  /\ lastId' = << >>
  /\ gravity' = g
  /\ UNCHANGED << objs, gameObjects, rigidBodies, activeCollisions, spatialHash,
                  sleepingObjects, entered, poked >>

\* physicsEngine.addObject(gameObject)
AddObject(id, limit) ==
  /\ Call("addObject", limit)
  /\ lastId' = id
  /\ LET w == addObject(World, id)
     IN  /\ gameObjects' = w.gameObjects
         /\ rigidBodies' = w.rigidBodies
  /\ UNCHANGED << objs, activeCollisions, gravity, spatialHash, sleepingObjects,
                  entered, poked >>

\* physicsEngine.removeObject(id).  A pair with a removed member starts over:
\* its next event may be an enter.
RemoveObject(id, limit) ==
  /\ Call("removeObject", limit)
  /\ lastId' = id
  /\ LET w == removeObject(World, id)
     IN  /\ gameObjects' = w.gameObjects
         /\ rigidBodies' = w.rigidBodies
         /\ activeCollisions' = w.activeCollisions
  /\ entered' = {key \in entered : id \notin Range(SplitKey(key))}
  /\ poked' = poked \ {id}
  /\ UNCHANGED << objs, gravity, spatialHash, sleepingObjects >>

\* physicsEngine.applyWind(force)
ApplyWind(force, limit) ==
  /\ Call("applyWind", limit)
  /\ lastId' = << >>
  /\ objs' = applyWind(World, force).objs
  /\ UNCHANGED << gameObjects, rigidBodies, activeCollisions, gravity, spatialHash,
                  sleepingObjects, entered, poked >>

\* physicsEngine.applyRadialForce(center, force, radius)
ApplyRadialForce(center, force, radius, limit) ==
  /\ Call("applyRadialForce", limit)
  /\ lastId' = << >>
  /\ objs' = applyRadialForce(World, center, force, radius).objs
  /\ UNCHANGED << gameObjects, rigidBodies, activeCollisions, gravity, spatialHash,
                  sleepingObjects, entered, poked >>

\* physicsEngine.pause() and physicsEngine.resume()
SetPaused(op, paused, limit) ==
  /\ calls < limit
  /\ calls' = calls + 1
  /\ lastOp' = op
  /\ lastId' = << >>
  /\ isPaused' = paused
  /\ emitted' = << >>
  /\ threw' = FALSE
  /\ UNCHANGED << objs, gameObjects, rigidBodies, activeCollisions, joints, gravity,
                  config, worldBounds, spatialHash, sleepingObjects, lastDt, ran,
                  created, entered, alternationBroken, lowStreak, metPairs, touched,
                  missedPairs, barredPairs, poked, due, updates >>
  /\ UNCHANGED detectVars

Pause(limit) == SetPaused("pause", TRUE, limit)

\* physicsEngine.importWorldState(worldState): clear(), then gravity, config and
\* worldBounds from worldState; worldState.objects is only counted for the log line.
ImportWorldState(worldState, limit) ==
  /\ calls < limit
  /\ calls' = calls + 1
  /\ lastOp' = "importWorldState"
  /\ lastId' = << >>
  /\ Commit([clear(World) EXCEPT !.ran = ran])
  /\ joints' = << >>
  /\ gravity' = Vec(worldState.gravity.x, worldState.gravity.y)
  /\ config' = worldState.config
  /\ worldBounds' = worldState.worldBounds
  /\ entered' = {}
  /\ poked' = {}
  /\ UNCHANGED << isPaused, lastDt, created, alternationBroken, lowStreak, metPairs,
                  touched, missedPairs, barredPairs, due, updates >>
  /\ UNCHANGED detectVars

Resume(limit) == SetPaused("resume", FALSE, limit)

----------------------------------------------------------------------------
(* The engine under collisions, layers, triggers, registration *)

MaxCalls == 1

MaxUpdates == 3

Push == Vec(Px(12), 0)

Next ==
  \/ \E deltaTime \in {1, 2} : Update(deltaTime, MaxUpdates)
  \/ \E id \in {P, Q} : ApplyForce(id, Push, MaxCalls)
  \/ \E id \in {P, Q} : ApplyImpulse(id, Push, MaxCalls)
  \/ \E g \in {Zero, Down} : SetGravity(g, MaxCalls)
  \/ \E id \in Ids : AddObject(id, MaxCalls)
  \/ \E id \in Ids : RemoveObject(id, MaxCalls)

Spec == Init /\ [][Next]_vars

----------------------------------------------------------------------------
(* PhysicsEngine (basic), src/physics/PhysicsEngine.ts *)

\* Returns the pair << objA, objB >> after resolveCollision(objA, objB, collision).
basicResolveCollision(objA, objB, collision) ==
  LET normal     == collision.normal
      separation == multiply(normal, Quot(collision.penetration, 2))
      movedA == IF ~objA.isStatic
                THEN [objA EXCEPT !.position = subtract(objA.position, separation)] ELSE objA
      movedB == IF ~objB.isStatic
                THEN [objB EXCEPT !.position = add(objB.position, separation)] ELSE objB
      relativeVelocity    == subtract(objB.velocity, objA.velocity)
      velocityAlongNormal == dot(relativeVelocity, normal)
      restitution         == Min(objA.restitution, objB.restitution)
      totalMass           == objA.mass + objB.mass
      impulseMagnitude ==
        IF totalMass > 0
        THEN Quot(-((100 + restitution) * velocityAlongNormal), 100 * totalMass)
        ELSE Quot(-((100 + restitution) * velocityAlongNormal), 100)
      impulse == multiply(normal, impulseMagnitude)
  IN  IF ~objA.hasPhysics \/ ~objB.hasPhysics THEN << objA, objB >>
      ELSE IF velocityAlongNormal > 0 THEN << movedA, movedB >>
      ELSE << IF ~movedA.isStatic /\ movedA.mass > 0
              THEN applyImpulse(movedA, multiply(impulse, -movedA.mass)) ELSE movedA,
              IF ~movedB.isStatic /\ movedB.mass > 0
              THEN applyImpulse(movedB, multiply(impulse, movedB.mass)) ELSE movedB >>

----------------------------------------------------------------------------
(* The collision functions on pairs of boxes *)

BoxSizes == {Vec(Px(10), Px(10)), Vec(Px(4), Px(10))}

BoxOffsets == {Vec(x, y) : x \in {-Px(5), 0, Px(3), Px(5), Px(12)}, y \in {-Px(3), 0, Px(3)}}

BoxVelocities == {Zero, Vec(Px(2), 0), Vec(-Px(2), 0)}

BoxMasses == {1, 3}

BoxRestitutions == {0, 100}

InitDetect ==
  /\ InitEngine(TriggerScene, NewConfig(TRUE, FALSE, TRUE))
  /\ \E sizeA \in BoxSizes, sizeB \in BoxSizes, at \in BoxOffsets,
        vA \in BoxVelocities, vB \in BoxVelocities, mB \in BoxMasses,
        e \in BoxRestitutions :
        /\ boxA = [NewObject(P, 0, 0) EXCEPT !.size = sizeA, !.velocity = vA,
                                             !.restitution = e]
        /\ boxB = [NewObject(Q, at.x, at.y) EXCEPT !.size = sizeB, !.velocity = vB,
                                                   !.mass = mB, !.restitution = e]
  /\ phase = "boxes"
  /\ hitAB = Null /\ hitBA = Null /\ resolved = Undefined
  /\ arg = Undefined /\ ret = Undefined

\* collisionDetector.checkCollision(A, B) and checkCollision(B, A)
Check ==
  /\ phase = "boxes"
  /\ hitAB' = checkCollision(boxA, boxB)
  /\ hitBA' = checkCollision(boxB, boxA)
  /\ phase' = "checked"
  /\ UNCHANGED << boxA, boxB, resolved, arg, ret >>
  /\ UNCHANGED engineVars

\* resolveCollision(A, B, collision) of the extended engine and of the basic engine
Resolve ==
  /\ phase = "checked"
  /\ hitAB # Null
  /\ LET w == resolveCollision([World EXCEPT !.objs = (P :> boxA @@ Q :> boxB @@ P2 :> objs[P2])],
                               P, Q, hitAB)
     IN  resolved' = [extended |-> << w.objs[P], w.objs[Q] >>,
                      basic    |-> basicResolveCollision(boxA, boxB, hitAB)]
  /\ phase' = "resolved"
  /\ UNCHANGED << boxA, boxB, hitAB, hitBA, arg, ret >>
  /\ UNCHANGED engineVars

NextDetect == Check \/ Resolve

SpecDetect == InitDetect /\ [][NextDetect]_vars

Negated(v) == Vec(-v.x, -v.y)

OverlapX(a, b) == Min(getBounds(a).right, getBounds(b).right) - Max(getBounds(a).left, getBounds(b).left)

OverlapY(a, b) == Min(getBounds(a).bottom, getBounds(b).bottom) - Max(getBounds(a).top, getBounds(b).top)

\* C8: checkCollision(A,B) reports a collision iff checkCollision(B,A) does, and then
\* the two results have the same penetration and exactly opposite normals, centres
\* that coincide on an axis included.
C8_SwappedIsOpposite ==
  phase # "boxes" =>
    /\ (hitAB = Null) <=> (hitBA = Null)
    /\ hitAB # Null =>
         /\ hitAB.penetration = hitBA.penetration
         /\ hitAB.normal = Negated(hitBA.normal)

\* C9: when checkCollision(A,B) reports a collision, the axis with the smaller overlap
\* gives the normal and the penetration, and the normal points from A's centre
\* toward B's centre on that axis.
C9_NormalFromAToB ==
  (phase # "boxes" /\ hitAB # Null) =>
    /\ OverlapX(boxA, boxB) < OverlapY(boxA, boxB) =>
         /\ hitAB.penetration = OverlapX(boxA, boxB)
         /\ hitAB.normal.y = 0
         /\ boxA.position.x < boxB.position.x => hitAB.normal = Vec(1, 0)
         /\ boxA.position.x > boxB.position.x => hitAB.normal = Vec(-1, 0)
    /\ OverlapY(boxA, boxB) < OverlapX(boxA, boxB) =>
         /\ hitAB.penetration = OverlapY(boxA, boxB)
         /\ hitAB.normal.x = 0
         /\ boxA.position.y < boxB.position.y => hitAB.normal = Vec(0, 1)
         /\ boxA.position.y > boxB.position.y => hitAB.normal = Vec(0, -1)

MomentumX(a, b) == a.mass * a.velocity.x + b.mass * b.velocity.x

\* The spec's case and its like: equal sizes and masses, restitution 0, the X
\* overlap the smaller.
C10_Case ==
  /\ phase = "resolved"
  /\ boxA.size = boxB.size
  /\ boxA.mass = boxB.mass
  /\ boxA.restitution = 0 /\ boxB.restitution = 0
  /\ OverlapX(boxA, boxB) < OverlapY(boxA, boxB)

\* The pair after resolution touches without overlap and keeps its X momentum.
C10_Apart(pair) ==
  /\ OverlapX(pair[1], pair[2]) = 0
  /\ MomentumX(pair[1], pair[2]) = MomentumX(boxA, boxB)

\* C10: for two overlapping non-static boxes of equal mass and restitution 0, collision
\* handling reports a normal along X with penetration equal to the X overlap, and
\* after resolution (by either engine) the boxes have zero overlap and the same
\* X momentum as before.
C10_SeparatedMomentumKept ==
  C10_Case =>
    /\ hitAB.normal.y = 0 /\ hitAB.normal.x # 0
    /\ hitAB.penetration = OverlapX(boxA, boxB)
    /\ C10_Apart(resolved.extended)
    /\ C10_Apart(resolved.basic)

----------------------------------------------------------------------------
(* Static bodies, layers, triggers, event alternation *)

\* C1: a body registered with isStatic=true keeps exactly the position and the
\* velocity it was constructed with, whatever updates, forces, impulses, gravity
\* changes, collisions, joint forces and world-bounds handling happen.
C1_StaticKeepsPositionAndVelocity ==
  \A id \in Range(gameObjects) :
     objs[id].isStatic =>
       /\ objs[id].position = created[id].position
       /\ objs[id].velocity = created[id].velocity

\* The layer test in the claim's words: A's layers meet B's mask and B's layers meet A's mask.
LayersAllow(idA, idB) ==
  /\ objs[idA].collisionLayers \cap objs[idB].collisionMask # {}
  /\ objs[idB].collisionLayers \cap objs[idA].collisionMask # {}

IsPairEvent(event) == event.type \in EnterTypes \cup ExitTypes

KeyHas(key, id) == id \in Range(SplitKey(key))

\* C5: a pair failing the layer test gets no collision-start, collision-end,
\* trigger-enter or trigger-exit event, is not met by collision handling, and a
\* body is moved or re-sped by collision handling only as a member of a pair that
\* passes; the engine's test answers the same for (A,B) and (B,A), and is the AND.
C5_LayersGateInteraction ==
  /\ \A i \in DOMAIN emitted :
        IsPairEvent(emitted[i]) => LayersAllow(emitted[i].objectA, emitted[i].objectB)
  /\ \A key \in metPairs : LayersAllow(SplitKey(key)[1], SplitKey(key)[2])
  /\ \A id \in touched :
        \E key \in metPairs : KeyHas(key, id) /\ LayersAllow(SplitKey(key)[1], SplitKey(key)[2])
  /\ \A idA \in Ids, idB \in Ids :
        /\ shouldObjectsCollide(objs[idA], objs[idB]) = shouldObjectsCollide(objs[idB], objs[idA])
        /\ (objs[idA].hasPhysics /\ objs[idB].hasPhysics) =>
             (shouldObjectsCollide(objs[idA], objs[idB]) = LayersAllow(idA, idB))

Overlapping(idA, idB) == checkCollision(objs[idA], objs[idB]) # Null

\* An update has run to its end over two registered overlapping bodies that fail the
\* layer test in one direction only, while another pair was handled.
C5_Witness ==
  /\ lastOp = "update" /\ ~threw
  /\ \E idA \in Range(gameObjects), idB \in Range(gameObjects) :
        /\ idA # idB
        /\ Overlapping(idA, idB)
        /\ ~LayersAllow(idA, idB)
        /\ objs[idB].collisionLayers \cap objs[idA].collisionMask # {}
  /\ metPairs # {}
  /\ touched # {}

HasTrigger(key) == objs[SplitKey(key)[1]].isTrigger \/ objs[SplitKey(key)[2]].isTrigger

\* C6: a pair with a trigger member gets only trigger-enter/trigger-exit events, and
\* collision handling changes a body's position or velocity only as a member of a
\* handled pair without a trigger member, in every configuration.
C6_TriggersOnlyNotify ==
  /\ \A i \in DOMAIN emitted :
        (IsPairEvent(emitted[i]) /\ HasTrigger(EventKey(emitted[i])))
          => emitted[i].type \in {"trigger-enter", "trigger-exit"}
  /\ \A id \in touched : \E key \in metPairs : KeyHas(key, id) /\ ~HasTrigger(key)

\* An update has met an overlapping trigger pair and emitted its trigger-enter.
C6_Witness ==
  /\ lastOp = "update" /\ ~threw
  /\ \E key \in metPairs : HasTrigger(key)
  /\ \E i \in DOMAIN emitted : emitted[i].type = "trigger-enter"

\* C7: per pair, enter events (collision-start, trigger-enter) and exit events
\* (collision-end, trigger-exit) strictly alternate, starting with an enter, over
\* every sequence of update, addObject and removeObject calls, removeObject of a
\* third body included.
C7_EventsAlternate == ~alternationBroken

----------------------------------------------------------------------------
(* The engine with sleeping bodies *)

\* Two dynamic bodies at rest side by side, a static one apart, no gravity, world bounds.
SleepScene ==
  [objs |-> (P  :> NewObject(P, 0, 0)
          @@ P2 :> [NewObject(P2, 0, Px(14)) EXCEPT !.isStatic = TRUE]
          @@ Q  :> NewObject(Q, Px(12), 0)),
   gameObjects |-> << P, P2, Q >>,
   joints |-> << >>,
   gravity |-> Zero,
   worldBounds |-> Box20]

InitSleep ==
  /\ \E broad \in BOOLEAN : InitEngine(SleepScene, NewConfig(TRUE, FALSE, broad))
  /\ NoDetect

MaxSleepCalls == 1

MaxSleepUpdates == 64

\* 1 per step for a body of mass 1: above velocityThreshold.
Nudge == Vec(Px(1), 0)

\* 0.1 per step for a body of mass 1: below velocityThreshold, above 0.01.
Tap == Vec(20, 0)

\* The caller acts on fresh bodies and on sleeping ones.
Poking == updates = 0 \/ AnySleeping

NextSleep ==
  \/ Update(1, MaxSleepUpdates)
  \/ Poking /\ ApplyForce(P, Nudge, MaxSleepCalls)
  \/ Poking /\ \E impulse \in {Tap, Nudge} : ApplyImpulse(P, impulse, MaxSleepCalls)
  \/ Poking /\ ApplyWind(Vec(Px(10), 0), MaxSleepCalls)
  \/ Poking /\ ApplyRadialForce(Vec(-Px(5), 0), Px(2), Px(10), MaxSleepCalls)

SpecSleep == InitSleep /\ [][NextSleep]_vars

SleepEvents(id) == {i \in DOMAIN emitted : emitted[i] = ObjectEvent("object-sleep", id)}

WakeEvents(id) == {i \in DOMAIN emitted : emitted[i] = ObjectEvent("object-wake", id)}

Dynamic(id) == Contains(gameObjects, id) /\ objs[id].hasPhysics /\ ~objs[id].isStatic

\* C2: with sleeping enabled, a non-static body found below velocityThreshold (and
\* below 0.01 of angular speed) by 60 consecutive update() calls is asleep with
\* velocity (0,0); the 60th call emits object-sleep once for it and later calls of
\* the streak emit none.
C2_SleepsAfter60SlowUpdates ==
  \A id \in Ids :
     (lastOp = "update" /\ Dynamic(id) /\ lowStreak[id] >= 60) =>
       /\ objs[id].isSleeping
       /\ objs[id].velocity = Zero
       /\ Cardinality(SleepEvents(id)) = (IF lowStreak[id] = 60 THEN 1 ELSE 0)

\* C3: a sleeping body given a non-zero force or impulse is awake at the end of the
\* next update(), with sleepTimer 0, and that update emitted exactly one
\* object-wake for it.
C3_PokedSleeperWakes ==
  \A id \in due :
     (lastOp = "update" /\ Dynamic(id)) =>
       /\ ~objs[id].isSleeping
       /\ objs[id].sleepTimer = 0
       /\ Cardinality(WakeEvents(id)) = 1

\* C4: at the return of every update(), every registered sleeping body is non-static
\* and has velocity exactly (0,0).
C4_SleepersAreStill ==
  lastOp = "update" =>
    \A id \in Range(gameObjects) :
       objs[id].isSleeping => (~objs[id].isStatic /\ objs[id].velocity = Zero)

----------------------------------------------------------------------------
(* Elastic collisions of the extended engine *)

\* The direction from A's centre to B's centre on the X axis: 1, -1, or 0.
SideX(a, b) == Sign(b.position.x - a.position.x)

\* Two non-static boxes of equal mass and restitution 1 whose contact is along X.
C11_Case ==
  /\ phase = "resolved"
  /\ boxA.mass = boxB.mass
  /\ boxA.restitution = 100 /\ boxB.restitution = 100
  /\ OverlapX(boxA, boxB) < OverlapY(boxA, boxB)
  /\ SideX(boxA, boxB) # 0

\* A moves toward B and B toward A.
HeadOn(a, b) ==
  /\ Sign(a.velocity.x) = SideX(a, b)
  /\ Sign(b.velocity.x) = -SideX(a, b)

\* The distance between the centres grows.
MovingApart(a, b) == Sign(b.velocity.x - a.velocity.x) = SideX(a, b)

\* C11: two non-static bodies of equal mass and restitution 1 that approach head-on
\* along one axis have exchanged their velocities along that axis once their overlap
\* is resolved, and bodies already moving apart keep their velocities.
C11_ElasticExchange ==
  C11_Case =>
    /\ HeadOn(boxA, boxB) =>
         /\ resolved.extended[1].velocity = boxB.velocity
         /\ resolved.extended[2].velocity = boxA.velocity
    /\ MovingApart(boxA, boxB) =>
         /\ resolved.extended[1].velocity = boxA.velocity
         /\ resolved.extended[2].velocity = boxB.velocity

----------------------------------------------------------------------------
(* A body falling onto static ground *)

\* 0.1 per step per step, downward (+y).
Drizzle == Vec(0, 20)

FallHeights == {-Px(11), -Px(12), -Px(20)}

\* A dynamic body of mass 1 at rest above a wide static ground body, both with
\* restitution 0; p2 has no physics and is not registered.
FallScene(bodyId, groundId, height) ==
  [objs |-> (bodyId   :> NewObject(bodyId, 0, height)
          @@ groundId :> [NewObject(groundId, 0, 0) EXCEPT !.isStatic = TRUE,
                                                         !.size = Vec(Px(40), Px(10))]
          @@ P2       :> [NewObject(P2, Px(15), Px(15)) EXCEPT !.hasPhysics = FALSE]),
   gameObjects |-> << P, Q >>,
   joints |-> << >>,
   gravity |-> Drizzle,
   worldBounds |-> Undefined]

InitFall ==
  /\ \E ids \in {<< P, Q >>, << Q, P >>}, height \in FallHeights, broad \in BOOLEAN :
        InitEngine(FallScene(ids[1], ids[2], height), NewConfig(TRUE, FALSE, broad))
  /\ NoDetect

MaxFallUpdates == 80

NextFall == Update(1, MaxFallUpdates)

\* A step of update(): the steps of a specification whose Next calls Update with
\* this limit that change the count of updates are exactly its Update steps.
Frame(limit) == updates < limit /\ Tame /\ updates' = updates + 1

\* The game loop calls update() every frame.
SpecFall == InitFall /\ [][NextFall]_vars /\ WF_updates(Frame(MaxFallUpdates))

\* The registered static body.
Ground == CHOOSE id \in Range(gameObjects) : objs[id].isStatic

\* The body's box ends above the ground's top edge or on it.
OnOrAboveGround(id) == getBounds(objs[id]).bottom <= getBounds(objs[Ground]).top

\* The body rests on the ground, still and asleep.
Settled(id) ==
  /\ getBounds(objs[id]).bottom = getBounds(objs[Ground]).top
  /\ objs[id].velocity = Zero
  /\ objs[id].isSleeping

\* C12: under gravity along +y a dynamic body that starts at rest above a static
\* ground body (restitution 0) is never left inside or below the ground by an
\* update(), and eventually rests on top of it with velocity zero, asleep, for good.
C12_BodySettlesOnGround ==
  /\ [](\A id \in Range(gameObjects) :
          (lastOp = "update" /\ Dynamic(id)) => OnOrAboveGround(id))
  /\ <>[](\A id \in Range(gameObjects) : Dynamic(id) => Settled(id))

----------------------------------------------------------------------------
(* The broad phase *)

\* C13: with broadPhaseOptimization enabled, every sub-step of every update() detects
\* every eligible pair of bodies whose boxes overlap at that moment, as it does with
\* the broad phase disabled: the first update after the bodies were added and bodies
\* that moved during the update included.
C13_BroadPhaseMissesNothing == missedPairs = {}

----------------------------------------------------------------------------
(* One body through update() in IEEE doubles.  A double is a record: a     *)
(* finite value of the grid, NaN, or an infinity with its sign.  The body  *)
(* is the only one registered, sleeping is disabled and no world bounds    *)
(* are set, so update(1) is one sub-step: applyExternalForces,             *)
(* integratePhysics and postProcessPhysics.                                *)

Fin(n) == [k |-> "fin", v |-> n]

NaN == [k |-> "nan", v |-> 0]

Infinity(sign) == [k |-> "inf", v |-> sign]

isNaN(a) == a.k = "nan"

isFinite(a) == a.k = "fin"

\* The sign of a double that is not NaN: -1, 0 or 1.
SignOf(a) == IF a.k = "inf" THEN a.v ELSE Sign(a.v)

\* a + b
fAdd(a, b) ==
  IF isNaN(a) \/ isNaN(b) THEN NaN
  ELSE IF a.k = "inf" /\ b.k = "inf" THEN (IF a.v = b.v THEN a ELSE NaN)
  ELSE IF a.k = "inf" THEN a
  ELSE IF b.k = "inf" THEN b
  ELSE Fin(a.v + b.v)

\* a * n for a plain number n (a time step, a mass, a scale of 0).
fTimes(a, n) ==
  IF isNaN(a) THEN NaN
  ELSE IF a.k = "inf" THEN (IF n = 0 THEN NaN ELSE Infinity(a.v * Sign(n)))
  ELSE Fin(a.v * n)

\* a / mass for mass > 0.
fOver(a, mass) == IF isFinite(a) THEN Fin(Quot(a.v, mass)) ELSE a

\* a < b: false when either is NaN.
fLess(a, b) ==
  IF isNaN(a) \/ isNaN(b) THEN FALSE
  ELSE IF a.k = "inf" THEN a.v < 0 /\ ~(b.k = "inf" /\ b.v < 0)
  ELSE IF b.k = "inf" THEN b.v > 0
  ELSE a.v < b.v

\* Math.abs
fAbs(a) == IF isNaN(a) THEN NaN ELSE IF a.k = "inf" THEN Infinity(1) ELSE Fin(Abs(a.v))

FinVec(v) == [x |-> Fin(v.x), y |-> Fin(v.y)]

PlainVec(v) == Vec(v.x.v, v.y.v)

\* Vector2D.magnitude on doubles.
magnitudeIEEE(v) ==
  IF isNaN(v.x) \/ isNaN(v.y) THEN NaN
  ELSE IF ~isFinite(v.x) \/ ~isFinite(v.y) THEN Infinity(1)
  ELSE Fin(magnitude(PlainVec(v)))

applyForceIEEE(o, f) ==
  IF o.isStatic THEN o
  ELSE [o EXCEPT !.force = [x |-> fAdd(o.force.x, f.x), y |-> fAdd(o.force.y, f.y)]]

\* The gravity force and nothing else: the body has no damping and no custom forces.
applyExternalForcesToIEEE(o) ==
  IF o.isStatic \/ ~o.affectedByGravity THEN o
  ELSE applyForceIEEE(o, FinVec(multiply(gravity, o.mass)))

\* The speed limit: scale = maxVelocity / speed is 0 for an infinite speed.
clampIEEE(v, speed) ==
  IF ~fLess(Fin(MaxVelocity), speed) THEN v
  ELSE IF isFinite(speed) THEN FinVec(ClampSpeed(PlainVec(v)))
  ELSE [x |-> fTimes(v.x, 0), y |-> fTimes(v.y, 0)]

\* The position after the step of a body given its new velocity.
moveIEEE(o, velocity, dt) ==
  [o EXCEPT !.velocity = velocity,
            !.position = [x |-> fAdd(o.position.x, fTimes(velocity.x, dt)),
                          y |-> fAdd(o.position.y, fTimes(velocity.y, dt))],
            !.angularVelocity = o.angularVelocity + o.angularAcceleration * dt,
            !.force = FinVec(Zero),
            !.angularAcceleration = 0]

accelerateIEEE(o, acceleration, dt) ==
  [x |-> fAdd(o.velocity.x, fTimes(acceleration.x, dt)),
   y |-> fAdd(o.velocity.y, fTimes(acceleration.y, dt))]

clampedIEEE(v) == clampIEEE(v, magnitudeIEEE(v))

integrateObjectIEEE(o, dt) ==
  moveIEEE(o,
           clampedIEEE(accelerateIEEE(o,
              IF o.mass > 0
              THEN [x |-> fAdd(o.acceleration.x, fOver(o.force.x, o.mass)),
                    y |-> fAdd(o.acceleration.y, fOver(o.force.y, o.mass))]
              ELSE o.acceleration,
              dt)),
           dt)

isValidPhysicsStateIEEE(o) ==
  /\ \A a \in {o.position.x, o.position.y, o.velocity.x, o.velocity.y,
               o.force.x, o.force.y} : ~isNaN(a)
  /\ \A a \in {o.position.x, o.position.y, o.velocity.x, o.velocity.y} : isFinite(a)

resetPhysicsStateIEEE(o) ==
  [o EXCEPT !.velocity = FinVec(Zero), !.force = FinVec(Zero),
            !.angularVelocity = 0, !.angularAcceleration = 0]

thresholdIEEE(o) ==
  [o EXCEPT
     !.velocity.x = IF fLess(fAbs(o.velocity.x), Fin(VelocityEpsilon)) THEN Fin(0) ELSE @,
     !.velocity.y = IF fLess(fAbs(o.velocity.y), Fin(VelocityEpsilon)) THEN Fin(0) ELSE @]

postProcessObjectIEEE(o) ==
  thresholdIEEE(IF isValidPhysicsStateIEEE(o) THEN o ELSE resetPhysicsStateIEEE(o))

\* update(dt) with dt = targetTimeStep over the one body.
updateIEEE(o, dt) ==
  IF o.isStatic THEN postProcessObjectIEEE(o)
  ELSE postProcessObjectIEEE(integrateObjectIEEE(applyExternalForcesToIEEE(o), dt))

Doubles == {Fin(0), Fin(Px(1)), NaN, Infinity(1), Infinity(-1)}

\* new GameObject({position: (0, 0), physics: {mass, velocity, acceleration, ...}})
NewBodyIEEE(mass, velocityX, accelerationX) ==
  [position |-> FinVec(Zero), velocity |-> [x |-> velocityX, y |-> Fin(0)],
   acceleration |-> [x |-> accelerationX, y |-> Fin(0)], force |-> FinVec(Zero),
   mass |-> mass, isStatic |-> FALSE, affectedByGravity |-> TRUE,
   angularVelocity |-> 0, angularAcceleration |-> 0]

InitNumbers ==
  /\ InitEngine(TriggerScene, NewConfig(FALSE, FALSE, FALSE))
  /\ NoBoxes
  /\ \E mass \in {0, 1, 2}, velocityX \in {Fin(0), Fin(Px(1))}, accelerationX \in Doubles :
        arg = NewBodyIEEE(mass, velocityX, accelerationX)
  /\ ret = [body |-> arg, updates |-> 0]
  /\ phase = "built"

\* gameObject.applyForce(force) before the first update
ForceNumbers(force) ==
  /\ phase = "built"
  /\ ret' = [ret EXCEPT !.body = applyForceIEEE(@, force)]
  /\ phase' = "forced"
  /\ UNCHANGED << boxA, boxB, hitAB, hitBA, resolved, arg >>
  /\ UNCHANGED engineVars

MaxNumberUpdates == 2

\* physicsEngine.update(1)
UpdateNumbers ==
  /\ phase \in {"built", "forced", "updated"}
  /\ ret.updates < MaxNumberUpdates
  /\ ret' = [body |-> updateIEEE(ret.body, 1), updates |-> ret.updates + 1]
  /\ phase' = "updated"
  /\ UNCHANGED << boxA, boxB, hitAB, hitBA, resolved, arg >>
  /\ UNCHANGED engineVars

NextNumbers ==
  \/ \E fx \in Doubles, fy \in {Fin(0), NaN} : ForceNumbers([x |-> fx, y |-> fy])
  \/ UpdateNumbers

SpecNumbers == InitNumbers /\ [][NextNumbers]_vars

\* C14: at the return of every update() the body has no NaN and no infinite component
\* in its position, velocity or force, whatever force was applied and whatever
\* acceleration or mass it was built with.
C14_StateStaysFinite ==
  phase = "updated" =>
    \A a \in {ret.body.position.x, ret.body.position.y,
              ret.body.velocity.x, ret.body.velocity.y,
              ret.body.force.x, ret.body.force.y} : isFinite(a)

----------------------------------------------------------------------------
(* Registration *)

\* C15: removeObject(id) twice leaves what removeObject(id) once leaves, and
\* removeObject of an id that is not registered changes nothing: the object set, the
\* rigid-body set and the set of colliding pairs stay as they are.
C15_RemoveAbsentIsNoOp ==
  \A id \in Ids :
     /\ removeObject(removeObject(World, id), id) = removeObject(World, id)
     /\ ~Registered(World, id) => removeObject(World, id) = World


\* A joint one of whose objects is not in gameObjects.
Dangling(joint) ==
  joint.enabled /\ (~Contains(gameObjects, joint.objectA) \/ ~Contains(gameObjects, joint.objectB))

\* The update() just returned left no force on the registered, simulated ends of
\* dangling joints.
NoForceFromDanglingJoints ==
  (lastOp = "update" /\ ~threw) =>
    \A i \in DOMAIN joints :
       Dangling(joints[i]) =>
         \A id \in {joints[i].objectA, joints[i].objectB} \cap Range(gameObjects) :
            shouldSimulateObject(objs[id]) => objs[id].force = Zero

\* addObject of an entity without a physics body changes no engine field.
AddWithoutPhysicsSkipped ==
  (lastOp' = "addObject" /\ calls' # calls /\ ~objs[lastId'].hasPhysics) =>
    UNCHANGED << objs, gameObjects, rigidBodies, activeCollisions, spatialHash,
                 sleepingObjects, joints >>

\* C16: addObject on an entity with no physics body leaves the object set and the
\* rigid-body set unchanged, and during update() a joint whose objectA or objectB is
\* not registered applies no force to any body and stays in the joint table.
C16_MissingEntitiesAreSkipped ==
  /\ []NoForceFromDanglingJoints
  /\ [][AddWithoutPhysicsSkipped /\ joints' = joints]_vars

\* After an update() over a dangling joint whose other end is a registered dynamic
\* body out of the joint's rest length, addObject was called with an entity that has
\* no physics body.
C16_Witness ==
  /\ lastOp = "addObject" /\ ~objs[lastId].hasPhysics
  /\ updates >= 1 /\ ~threw
  /\ \E i \in DOMAIN joints :
        /\ Dangling(joints[i])
        /\ Contains(gameObjects, joints[i].objectB)
        /\ shouldSimulateObject(objs[joints[i].objectB])
        /\ Abs(distance(objs[joints[i].objectA].position, objs[joints[i].objectB].position)
               - joints[i].targetLength) >= 2

----------------------------------------------------------------------------
(* Pausing, and updates that take no time *)

InitPause ==
  /\ \E scene \in {StaticScene, TriggerScene}, broad \in BOOLEAN :
        InitEngine(scene, NewConfig(TRUE, FALSE, broad))
  /\ NoDetect

MaxPauseCalls == 3

MaxPauseUpdates == 3

NextPause ==
  \/ \E deltaTime \in {-1, 0, 1} : Update(deltaTime, MaxPauseUpdates)
  \/ Pause(MaxPauseCalls)
  \/ Resume(MaxPauseCalls)
  \/ ApplyImpulse(Q, Push, MaxPauseCalls)

SpecPause == InitPause /\ [][NextPause]_vars

\* The step is a call of update().
UpdateStep == lastOp' = "update" /\ updates' # updates

\* A body that update() integrates under the gravity set.
Falls(id) ==
  /\ Contains(gameObjects, id)
  /\ shouldSimulateObject(objs[id])
  /\ objs[id].affectedByGravity
  /\ gravity # Zero

\* update() while paused, or with dt <= 0, changes no body and no pair and emits nothing.
IdleUpdateIsNoOp ==
  (UpdateStep /\ (isPaused \/ lastDt' <= 0)) =>
    /\ UNCHANGED << objs, gameObjects, rigidBodies, activeCollisions, spatialHash,
                    sleepingObjects >>
    /\ emitted' = << >>
    /\ ~threw'

\* update(dt > 0) on an engine that is not paused moves the bodies gravity acts on.
RunningUpdateSimulates ==
  (UpdateStep /\ ~isPaused /\ lastDt' > 0 /\ \E id \in Ids : Falls(id)) => objs' # objs

\* C17: update(dt) is a no-op when the engine is paused or dt <= 0 (no body's position,
\* velocity, force, rotation, sleep timer or sleep flag changes, the colliding pairs
\* stay and no event is emitted); resume() clears the pause, and the next
\* update(dt > 0) simulates again.
C17_PausedOrTimelessUpdateIsNoOp ==
  /\ [][IdleUpdateIsNoOp /\ RunningUpdateSimulates]_vars
  /\ [](lastOp = "resume" => ~isPaused)
  /\ [](lastOp = "pause" => isPaused)

\* update(dt > 0) was just called on a paused engine that an earlier update() had
\* moved, with a body that gravity would have moved again.
C17_Witness ==
  /\ lastOp = "update" /\ isPaused /\ lastDt > 0
  /\ updates >= 2
  /\ objs # created
  /\ \E id \in Ids : Falls(id)

----------------------------------------------------------------------------
(* The loop of sub-steps.  Times are multiples of 6 here so that every       *)
(* clampedDeltaTime / actualSubsteps the configurations produce is exact.    *)

StepConfigs ==
  {[NewConfig(FALSE, FALSE, FALSE) EXCEPT !.targetTimeStep = target,
                                          !.maxDeltaTime = most,
                                          !.maxSubsteps = substeps] :
     target \in {12, 24}, most \in {24, 48}, substeps \in {1, 2, 4}}

DeltaTimes == {6, 12, 24, 36, 48, 60}

InitSteps ==
  /\ \E cfg \in StepConfigs : InitEngine(TriggerScene, cfg)
  /\ NoDetect

MaxStepUpdates == 2

NextSteps == \E deltaTime \in DeltaTimes : Update(deltaTime, MaxStepUpdates)

SpecSteps == InitSteps /\ [][NextSteps]_vars

\* The time the last update() had to simulate.
Clamped == IF lastDt < config.maxDeltaTime THEN lastDt ELSE config.maxDeltaTime

\* C18: for dt > 0 on an engine that is not paused, update(dt) runs
\* min(ceil(d / targetTimeStep), maxSubsteps) sub-steps with d = min(dt, maxDeltaTime):
\* at least one, at most maxSubsteps, as many as targetTimeStep needs to cover d
\* unless maxSubsteps is fewer, each of d / substeps, in all d and never more than
\* maxDeltaTime.
C18_SubstepsCoverClampedTime ==
  (lastOp = "update" /\ lastDt > 0 /\ ~isPaused /\ ~threw) =>
    /\ ran.steps >= 1
    /\ ran.steps <= config.maxSubsteps
    /\ ran.steps = config.maxSubsteps \/ ran.steps * config.targetTimeStep >= Clamped
    /\ (ran.steps - 1) * config.targetTimeStep < Clamped
    /\ \A dt \in ran.stepTimes : dt * ran.steps = Clamped
    /\ ran.elapsed = Clamped
    /\ ran.elapsed <= config.maxDeltaTime

\* An update() ran as many sub-steps as maxSubsteps allows, fewer than targetTimeStep
\* asks for, over a time that maxDeltaTime cut.
C18_Witness ==
  /\ lastOp = "update" /\ ~threw
  /\ lastDt > config.maxDeltaTime
  /\ ran.steps = config.maxSubsteps
  /\ ran.steps > 1
  /\ ran.steps * config.targetTimeStep < Clamped
  /\ objs # created

----------------------------------------------------------------------------
(* Export and import of the world state *)

InitImport ==
  /\ \E scene \in {StaticScene, TriggerScene}, broad \in BOOLEAN :
        InitEngine(scene, NewConfig(TRUE, FALSE, broad))
  /\ NoDetect

MaxImportCalls == 2

MaxImportUpdates == 3

NextImport ==
  \/ Update(1, MaxImportUpdates)
  \/ ImportWorldState(exportWorldState(World), MaxImportCalls)
  \/ \E id \in {P, Q} : AddObject(id, MaxImportCalls)

SpecImport == InitImport /\ [][NextImport]_vars

\* The step is importWorldState(exportWorldState()).
ImportStep == lastOp' = "importWorldState" /\ calls' # calls

\* C19: after importWorldState(exportWorldState()) the engine holds the same bodies
\* (position, velocity, physics parameters) and the same gravity, config and world
\* bounds, and the next update() gives what it would have given before the round trip.
C19_ExportImportRoundTrip ==
  [][ImportStep =>
       /\ UNCHANGED << objs, gameObjects, gravity, config, worldBounds >>
       /\ update(World, 1)' = update(World, 1)]_vars

----------------------------------------------------------------------------
(* Vector2D.divide on IEEE doubles.  Components are doubles of the length  *)
(* grid, the scalar is a plain double; the two zeros of IEEE are one value *)
(* here, as they are for ===.                                              *)

\* a / b in IEEE arithmetic, b = 0 included.
fDivide(a, b) ==
  IF isNaN(a) \/ isNaN(b) THEN NaN
  ELSE IF a.k = "inf" THEN
         (IF b.k = "inf" THEN NaN
          ELSE Infinity(a.v * (IF b.v < 0 THEN -1 ELSE 1)))
  ELSE IF b.k = "inf" THEN Fin(0)
  ELSE IF b.v = 0 THEN (IF a.v = 0 THEN NaN ELSE Infinity(Sign(a.v)))
  ELSE Fin(Quot(a.v, b.v))

DivisionByZero == "Division por cero"

\* divide without its guard.
divide_Unguarded(this, scalar) ==
  [error |-> "",
   value |-> [x |-> fDivide(this.x, scalar), y |-> fDivide(this.y, scalar)],
   this  |-> this]

\* Vector2D.divide: the error thrown (or ""), the vector returned and the
\* receiver after the call.
divide(this, scalar) ==
  IF scalar = Fin(0)
  THEN [error |-> DivisionByZero, value |-> Undefined, this |-> this]
  ELSE [error |-> "",
        value |-> [x |-> fDivide(this.x, scalar), y |-> fDivide(this.y, scalar)],
        this  |-> this]

Components ==
  {Fin(-Px(8)), Fin(0), Fin(Px(1)), Fin(Px(4)), Fin(Px(6)), NaN,
   Infinity(1), Infinity(-1)}

Scalars == {Fin(-2), Fin(0), Fin(1), Fin(2), Fin(4), NaN, Infinity(1), Infinity(-1)}

\* new Vector2D(x, y) and the scalar of the call to come.
InitDivide ==
  /\ InitEngine(StaticScene, NewConfig(TRUE, FALSE, FALSE))
  /\ NoBoxes
  /\ phase = "vector"
  /\ \E x \in Components, y \in Components, scalar \in Scalars :
        arg = [this |-> [x |-> x, y |-> y], scalar |-> scalar]
  /\ ret = Undefined

\* vector.divide(scalar)
Divide ==
  /\ phase = "vector"
  /\ ret' = divide(arg.this, arg.scalar)
  /\ phase' = "divided"
  /\ UNCHANGED << boxA, boxB, hitAB, hitBA, resolved, arg >>
  /\ UNCHANGED engineVars

NextDivide == Divide

SpecDivide == InitDivide /\ [][NextDivide]_vars

\* q is the double a / s for s # 0: NaN and the infinities as IEEE has them,
\* and for finite operands the value that gives a back when multiplied by s.
IsQuotient(q, a, s) ==
  IF isNaN(a) \/ isNaN(s) THEN isNaN(q)
  ELSE IF a.k = "inf" /\ s.k = "inf" THEN isNaN(q)
  ELSE IF a.k = "inf" THEN q = Infinity(a.v * Sign(s.v))
  ELSE IF s.k = "inf" THEN q = Fin(0)
  ELSE isFinite(q) /\ q.v * s.v = a.v

\* C20: divide(s) throws the divide-by-zero error for every receiver when s
\* is 0 and returns no vector then; for s # 0 it throws nothing and returns
\* (x/s, y/s); the receiver is the same vector after the call in both cases.
C20_DivideByZeroThrows ==
  phase = "divided" =>
    /\ ret.this = arg.this
    /\ arg.scalar = Fin(0) =>
         ret.error = DivisionByZero /\ ret.value = Undefined
    /\ arg.scalar # Fin(0) =>
         /\ ret.error = ""
         /\ IsQuotient(ret.value.x, arg.this.x, arg.scalar)
         /\ IsQuotient(ret.value.y, arg.this.y, arg.scalar)

\* divide(Vector2D(4, 4), 0) has thrown.
C20_Witness ==
  /\ phase = "divided"
  /\ arg = [this |-> FinVec(Vec(Px(4), Px(4))), scalar |-> Fin(0)]
  /\ ret.error = DivisionByZero

----------------------------------------------------------------------------
(* The arithmetic of Vector2D on an integer grid.  Every Vector2D object   *)
(* is a cell of a heap (arg.heap): the receiver a is cell 1, the operand b *)
(* is cell 2, and `new Vector2D(...)` appends a cell.  ret.ref is the cell *)
(* returned by the last call and ret.op the method called.                 *)

\* Vector2D.clone
clone(v) == Vec(v.x, v.y)

\* this.divide(scalar) for a vector and a scalar of the integer grid.
divideExact(v, scalar) == PlainVec(divide(FinVec(v), Fin(scalar)).value)

GridComponents == {-4, -3, 0, 3, 4}

GridVectors == {Vec(x, y) : x \in GridComponents, y \in GridComponents}

GridScalars == {-2, 1, 2}

\* const a = new Vector2D(..), b = new Vector2D(..)
InitVector ==
  /\ InitEngine(StaticScene, NewConfig(TRUE, FALSE, FALSE))
  /\ NoBoxes
  /\ phase = "vectors"
  /\ \E a \in GridVectors, b \in GridVectors, scalar \in GridScalars :
        arg = [heap |-> << a, b >>, scalar |-> scalar]
  /\ ret = [op |-> "new", ref |-> 1]

\* The vector a method of cell `this` returns; no method assigns this.x,
\* this.y or a field of its operand.
Returned(method, this, other, scalar) ==
  CASE method = "add"       -> add(this, other)
    [] method = "subtract"  -> subtract(this, other)
    [] method = "multiply"  -> multiply(this, scalar)
    [] method = "divide"    -> divideExact(this, scalar)
    [] method = "normalize" -> normalize(this)
    [] method = "clone"     -> clone(this)

\* result = heap[ret.ref].method(b or scalar): a call on the receiver a, or
\* (once) on the vector the last call returned.
Operate(method) ==
  /\ phase \in {"vectors", "returned"}
  /\ phase = "returned" => ret.op = "add" /\ method = "subtract"
  /\ arg' = [arg EXCEPT !.heap =
               Append(@, Returned(method, arg.heap[ret.ref], arg.heap[2], arg.scalar))]
  /\ ret' = [op |-> method, ref |-> Len(arg.heap) + 1]
  /\ phase' = IF phase = "vectors" THEN "returned" ELSE "chained"
  /\ UNCHANGED << boxA, boxB, hitAB, hitBA, resolved >>
  /\ UNCHANGED engineVars

Methods == {"add", "subtract", "multiply", "divide", "normalize", "clone"}

NextVector == \E method \in Methods : Operate(method)

SpecVector == InitVector /\ [][NextVector]_vars

\* n is a / |a| in thousandths: each component, multiplied back by |a|, is
\* within one grid step of the component of a.
IsUnitOf(n, a) ==
  LET mag == magnitude(a)
  IN  /\ Abs(n.x * mag - 1000 * a.x) < mag
      /\ Abs(n.y * mag - 1000 * a.y) < mag
      /\ Sign(n.x) = Sign(a.x) /\ Sign(n.y) = Sign(a.y)

\* C21: a.add(b).subtract(b) is a; the zero vector normalizes to the zero
\* vector; a non-zero a normalizes to a / |a|; and every method returns a new
\* vector object and leaves a and b as they were.
C21_VectorAlgebra ==
  /\ [](phase = "chained" => arg.heap[ret.ref] = arg.heap[1])
  /\ [](phase = "returned" /\ ret.op = "normalize" =>
          IF arg.heap[1] = Zero THEN arg.heap[ret.ref] = Zero
          ELSE IsUnitOf(arg.heap[ret.ref], arg.heap[1]))
  /\ [][NextVector =>
          /\ arg'.heap[1] = arg.heap[1] /\ arg'.heap[2] = arg.heap[2]
          /\ ret'.ref \notin DOMAIN arg.heap]_vars

\* a.add(b).subtract(b) has returned for a non-zero b.
C21_Witness ==
  /\ phase = "chained"
  /\ arg.heap[2] # Zero
  /\ arg.heap[3] # arg.heap[1]

----------------------------------------------------------------------------
(* The event system: on(), the unsubscribe closures it returns, and the    *)
(* dispatch of emit().  arg.eventListeners is the engine's map from event  *)
(* to its list of callbacks; arg.closures lists the closures returned by    *)
(* on() in call order, each with its captured event and callback and the   *)
(* number of times the caller has invoked it.  ret is the last call.       *)

ListenEvents == {"collision-start", "bounds-exit"}

Callbacks == {"f", "g"}

\* listeners.indexOf(callback): 0 when absent (-1 in the source).
indexOf(listeners, callback) ==
  IF \E i \in DOMAIN listeners : listeners[i] = callback
  THEN CHOOSE i \in DOMAIN listeners :
         /\ listeners[i] = callback
         /\ \A j \in 1..(i - 1) : listeners[j] # callback
  ELSE 0

\* listeners.splice(index, 1)
splice(listeners, index) ==
  [i \in 1..(Len(listeners) - 1) |->
     IF i < index THEN listeners[i] ELSE listeners[i + 1]]

\* on(event, callback): the listeners after the push.
on(eventListeners, event, callback) ==
  [eventListeners EXCEPT ![event] = Append(@, callback)]

\* The closure on() returns, called: the listeners after it.
unsubscribe(eventListeners, event, callback) ==
  LET index == indexOf(eventListeners[event], callback)
  IN  IF index > 0
      THEN [eventListeners EXCEPT ![event] = splice(@, index)]
      ELSE eventListeners

\* emit(event, data): the callbacks invoked, in order.
invoked(eventListeners, event) == eventListeners[event]

MaxSubscriptions == 3

MaxListenCalls == 6

\* initializeEventSystem
InitListen ==
  /\ InitEngine(StaticScene, NewConfig(TRUE, FALSE, FALSE))
  /\ NoBoxes
  /\ phase = "listening"
  /\ arg = [eventListeners |-> [event \in ListenEvents |-> << >>],
            closures |-> << >>, calls |-> 0]
  /\ ret = [op |-> "new", closure |-> 0, invoked |-> << >>]

ListenCall(listeners, closures, op, closure, called) ==
  /\ phase = "listening"
  /\ arg.calls < MaxListenCalls
  /\ arg' = [eventListeners |-> listeners, closures |-> closures,
             calls |-> arg.calls + 1]
  /\ ret' = [op |-> op, closure |-> closure, invoked |-> called]
  /\ UNCHANGED << boxA, boxB, phase, hitAB, hitBA, resolved >>
  /\ UNCHANGED engineVars

\* const off = engine.on(event, callback)
On(event, callback) ==
  /\ Len(arg.closures) < MaxSubscriptions
  /\ ListenCall(on(arg.eventListeners, event, callback),
                Append(arg.closures,
                       [event |-> event, callback |-> callback, called |-> 0]),
                "on", Len(arg.closures) + 1, << >>)

\* off(), for the closure of the n-th on()
Unsubscribe(n) ==
  /\ n \in DOMAIN arg.closures
  /\ ListenCall(unsubscribe(arg.eventListeners, arg.closures[n].event,
                            arg.closures[n].callback),
                [arg.closures EXCEPT ![n].called = @ + 1],
                "off", n, << >>)

\* this.emit(event, data)
Emit(event) ==
  ListenCall(arg.eventListeners, arg.closures, "emit", 0,
             invoked(arg.eventListeners, event))

NextListen ==
  \/ \E event \in ListenEvents, callback \in Callbacks : On(event, callback)
  \/ \E n \in 1..MaxSubscriptions : Unsubscribe(n)
  \/ \E event \in ListenEvents : Emit(event)

SpecListen == InitListen /\ [][NextListen]_vars

\* The number of entries of a list equal to callback.
Occurrences(listeners, callback) ==
  Cardinality({i \in DOMAIN listeners : listeners[i] = callback})

\* The subscriptions of (event, callback) whose closure was never called.
Subscribed(event, callback) ==
  {n \in DOMAIN arg.closures :
     /\ arg.closures[n].event = event
     /\ arg.closures[n].callback = callback
     /\ arg.closures[n].called = 0}

\* C22: each on() adds one subscription; each unsubscribe closure removes its
\* own subscription and only that one, so every callback is listed (and is
\* invoked by emit) once per subscription not yet unsubscribed, and a closure
\* called again removes nothing.
C22_UnsubscribeRemovesOwn ==
  phase = "listening" =>
    \A event \in ListenEvents, callback \in Callbacks :
       Occurrences(arg.eventListeners[event], callback) =
         Cardinality(Subscribed(event, callback))

----------------------------------------------------------------------------
(* A spinning body: no gravity, no world bounds, one dynamic body built    *)
(* with a rotation and an angular acceleration (thousandths of a radian); *)
(* the constructor sets the angular velocity to 0 and the first sub-step   *)
(* turns the acceleration into the angular velocity.                       *)

SpinScene(rotation, angularAcceleration) ==
  [objs |-> (Q  :> [NewObject(Q, 0, 0) EXCEPT !.rotation = rotation,
                                              !.angularAcceleration = angularAcceleration,
                                              !.affectedByGravity = FALSE]
          @@ P  :> [NewObject(P, Px(50), 0) EXCEPT !.isStatic = TRUE]
          @@ P2 :> [NewObject(P2, Px(15), Px(15)) EXCEPT !.hasPhysics = FALSE]),
   gameObjects |-> << P, Q >>,
   joints |-> << >>,
   gravity |-> Zero,
   worldBounds |-> Undefined]

Spins == {-3000, -700, 0, 700, 3000}

Rotations == {0, 3000, 6000}

InitSpin ==
  /\ \E rotation \in Rotations, angularAcceleration \in Spins, sleeping \in BOOLEAN :
        InitEngine(SpinScene(rotation, angularAcceleration),
                   NewConfig(sleeping, FALSE, FALSE))
  /\ NoDetect

MaxSpinUpdates == 6

NextSpin == Update(1, MaxSpinUpdates)

SpecSpin == InitSpin /\ [][NextSpin]_vars

\* C23: at the return of every update() the rotation of every simulated body
\* is in [0, 2 pi), whichever way the body spins.
C23_RotationNormalized ==
  lastOp = "update" =>
    \A id \in Range(gameObjects) :
       shouldSimulateObject(objs[id]) =>
         0 <= objs[id].rotation /\ objs[id].rotation < TwoPi

----------------------------------------------------------------------------
\* C24: at the return of every update() that simulated a sub-step, the force
\* accumulator of every registered body is (0, 0): gravity, custom forces,
\* joint forces and the forces the caller applied have all been consumed.
C24_ForcesConsumed ==
  lastOp = "update" /\ ~threw /\ ran.steps > 0 =>
    \A id \in Range(gameObjects) :
       objs[id].hasPhysics => objs[id].force = Zero

----------------------------------------------------------------------------
(* World bounds: one dynamic body q, built with a velocity, inside a world *)
(* of 40 x 40 with or without wrap; no gravity, sleeping disabled.         *)

BoundsScene(velocity, wrap) ==
  [objs |-> (Q  :> [NewObject(Q, 0, 0) EXCEPT !.velocity = velocity,
                                              !.affectedByGravity = FALSE]
          @@ P  :> [NewObject(P, Px(50), 0) EXCEPT !.hasPhysics = FALSE]
          @@ P2 :> [NewObject(P2, Px(15), Px(15)) EXCEPT !.hasPhysics = FALSE]),
   gameObjects |-> << Q >>,
   joints |-> << >>,
   gravity |-> Zero,
   worldBounds |-> [Box20 EXCEPT !.wrap = wrap]]

Drifts ==
  {Vec(x, y) : x \in {-Px(6), 0, Px(6)}, y \in {-Px(6), 0, Px(6)}}
    \cup {Vec(Px(8), Px(1)), Vec(-Px(1), -Px(8))}

InitBounds ==
  /\ \E velocity \in Drifts, wrap \in BOOLEAN, broad \in BOOLEAN :
        InitEngine(BoundsScene(velocity, wrap), NewConfig(FALSE, FALSE, broad))
  /\ NoDetect

MaxBoundsUpdates == 6

NextBounds == Update(1, MaxBoundsUpdates)

SpecBounds == InitBounds /\ [][NextBounds]_vars

\* The edges that the box of body o lies beyond.
Beyond(o) ==
  LET bounds == getBounds(o)
  IN  [left   |-> bounds.left < worldBounds.left,
       right  |-> bounds.right > worldBounds.right,
       top    |-> bounds.top < worldBounds.top,
       bottom |-> bounds.bottom > worldBounds.bottom]

\* before is the body when update() reaches applyWorldBounds, after is the body
\* at the return; emittedAfter are the events this update() emitted.
BoundsApplied(before, after, emittedAfter) ==
  LET out   == Beyond(before)
      halfX == before.size.x \div 2
      halfY == before.size.y \div 2
      exit  == \E i \in DOMAIN emittedAfter :
                 emittedAfter[i] = ObjectEvent("bounds-exit", before.id)
  IN  IF worldBounds.wrap
      THEN /\ out.left   => /\ after.position.x = worldBounds.right - halfX
                            /\ after.velocity.x = before.velocity.x
           /\ out.right  => /\ after.position.x = worldBounds.left + halfX
                            /\ after.velocity.x = before.velocity.x
           /\ out.top    => /\ after.position.y = worldBounds.bottom - halfY
                            /\ after.velocity.y = before.velocity.y
           /\ out.bottom => /\ after.position.y = worldBounds.top + halfY
                            /\ after.velocity.y = before.velocity.y
      ELSE /\ out.left   => /\ after.position.x = worldBounds.left + halfX
                            /\ after.velocity.x = Abs(before.velocity.x) \div 2
                            /\ exit
           /\ out.right  => /\ after.position.x = worldBounds.right - halfX
                            /\ after.velocity.x = -(Abs(before.velocity.x) \div 2)
                            /\ exit
           /\ out.top    => /\ after.position.y = worldBounds.top + halfY
                            /\ after.velocity.y = Abs(before.velocity.y) \div 2
                            /\ exit
           /\ out.bottom => /\ after.position.y = worldBounds.bottom - halfY
                            /\ after.velocity.y = -(Abs(before.velocity.y) \div 2)
                            /\ exit

\* C25: a non-static body whose box has left the world through an edge is, at
\* the return of update(), at the opposite edge with the velocity on that axis
\* unchanged when wrap is set; and otherwise just inside the edge it crossed,
\* with that velocity component halved and pointing inward, and bounds-exit
\* emitted.
C25_BoundsWrapOrBounce ==
  [][UpdateStep =>
       BoundsApplied(beforeSleep(World, 1).objs[Q], objs'[Q], emitted')]_vars

----------------------------------------------------------------------------
(* GameEngine, src/core/GameEngine.ts, over the basic PhysicsEngine.       *)
(* The caller holds three GameObject instances, numbered 1 to 3; instances *)
(* 1 and 3 were built with the same id.  arg.objects are the instances,    *)
(* arg.gameObjects is GameEngine.gameObjects and arg.physics is the        *)
(* gameObjects map of its PhysicsEngine, both as lists of (id, instance)   *)
(* in Map insertion order.  ret describes the last call: for a frame, the  *)
(* instances that were inactive when it began and the pairs its            *)
(* handleCollisions resolved and notified.  Every body has friction 0.     *)

\* Map.set(id, object): a present key keeps its place.
MapSet(map, id, object) ==
  IF \E i \in DOMAIN map : map[i].id = id
  THEN [i \in DOMAIN map |->
          IF map[i].id = id THEN [id |-> id, object |-> object] ELSE map[i]]
  ELSE Append(map, [id |-> id, object |-> object])

\* Map.delete(id)
MapDelete(map, id) == SelectSeq(map, LAMBDA entry : entry.id # id)

\* PhysicsEngine.addObject of the basic engine
basicAddObject(physics, o, object) ==
  IF o.hasPhysics THEN MapSet(physics, o.id, object) ELSE physics

\* applyGravity, then updateObjectPhysics, for one instance.
basicIntegrate(o, dt) ==
  LET pulled == IF o.hasPhysics /\ ~o.isStatic /\ o.mass > 0
                THEN applyForce(o, multiply(multiply(gravity, dt), o.mass))
                ELSE o
      acceleration ==
        IF pulled.mass > 0
        THEN Vec(pulled.acceleration.x + Quot(pulled.force.x, pulled.mass),
                 pulled.acceleration.y + Quot(pulled.force.y, pulled.mass))
        ELSE pulled.acceleration
      velocity == add(pulled.velocity, multiply(acceleration, dt))
  IN  IF pulled.active /\ pulled.hasPhysics /\ ~pulled.isStatic
      THEN [pulled EXCEPT !.velocity = velocity,
                          !.position = add(pulled.position, multiply(velocity, dt)),
                          !.rotation = @ + pulled.angularVelocity * dt,
                          !.force = Zero]
      ELSE pulled

\* The body of the two loops of handleCollisions for objects[i], objects[j].
basicHandlePair(h, a, b) ==
  LET objA == h.objects[a]
      objB == h.objects[b]
      collision == IF objA.active /\ objB.active /\ objA.hasPhysics /\ objB.hasPhysics
                   THEN checkCollision(objA, objB) ELSE Null
      after == IF collision = Null THEN << objA, objB >>
               ELSE basicResolveCollision(objA, objB, collision)
  IN  IF collision = Null THEN h
      ELSE [objects  |-> [h.objects EXCEPT ![a] = after[1], ![b] = after[2]],
            notified |-> h.notified \cup {{a, b}}]

\* handleCollisions of the basic engine: every pair i < j of the registered
\* instances, in order.
basicHandleCollisions(objects, physics) ==
  LET n      == Len(physics)
      Inner(i) == [k \in 1..(n - i) |-> << physics[i].object, physics[i + k].object >>]
      Step(h, pair) == basicHandlePair(h, pair[1], pair[2])
      Row(h, i) == FoldSeq(Step, h, Inner(i))
  IN  FoldSeq(Row, [objects |-> objects, notified |-> {}], [i \in 1..n |-> i])

\* PhysicsEngine.update of the basic engine.
basicUpdate(objects, physics, dt) ==
  basicHandleCollisions(
    [object \in DOMAIN objects |->
       IF \E i \in DOMAIN physics : physics[i].object = object
       THEN basicIntegrate(objects[object], dt) ELSE objects[object]],
    physics)

\* GameEngine.removeGameObject
removeGameObject(game, id) ==
  IF \E i \in DOMAIN game.gameObjects : game.gameObjects[i].id = id
  THEN [game EXCEPT !.physics = MapDelete(@, id), !.gameObjects = MapDelete(@, id)]
  ELSE game

\* GameEngine.cleanupInactiveObjects
cleanupInactiveObjects(game) ==
  LET toRemove == SelectSeq(game.gameObjects,
                            LAMBDA entry : ~game.objects[entry.object].active)
      Step(g, entry) == removeGameObject(g, entry.id)
  IN  FoldSeq(Step, game, toRemove)

\* The user's update callback destroys the instances in destroyed.
destroyAll(objects, destroyed) ==
  [object \in DOMAIN objects |->
     IF object \in destroyed THEN destroy(objects[object]) ELSE objects[object]]

\* GameEngine.update: physics, the user's callback, the cleanup pass.
gameUpdate(game, stepped, destroyed) ==
  cleanupInactiveObjects(
    [game EXCEPT !.objects = destroyAll(stepped.objects, destroyed)])

Instances == {1, 2, 3}

\* new GameEngine(config); the three instances overlap pairwise.
InitGame ==
  /\ InitEngine(StaticScene, NewConfig(TRUE, FALSE, FALSE))
  /\ NoBoxes
  /\ phase = "game"
  /\ \E physics3 \in BOOLEAN :
        arg = [objects |-> << NewObject(P, 0, 0), NewObject(Q, Px(4), 0),
                              [NewObject(P, Px(2), Px(2)) EXCEPT !.hasPhysics = physics3] >>,
               gameObjects |-> << >>, physics |-> << >>, calls |-> 0, frames |-> 0]
  /\ ret = [op |-> "new", inactive |-> {}, notified |-> {}]

MaxGameCalls == 3

MaxFrames == 2

GameCall(game, op, notified) ==
  /\ phase = "game"
  /\ arg' = game
  /\ ret' = [op |-> op,
             inactive |-> {object \in Instances : ~arg.objects[object].active},
             notified |-> notified]
  /\ UNCHANGED << boxA, boxB, phase, hitAB, hitBA, resolved >>
  /\ UNCHANGED engineVars

\* engine.addGameObject(object)
AddGameObject(object) ==
  /\ arg.calls < MaxGameCalls
  /\ GameCall([arg EXCEPT !.gameObjects = MapSet(@, arg.objects[object].id, object),
                          !.physics = basicAddObject(@, arg.objects[object], object),
                          !.calls = @ + 1],
              "addGameObject", {})

\* engine.removeGameObject(id)
RemoveGameObject(id) ==
  /\ arg.calls < MaxGameCalls
  /\ GameCall([removeGameObject(arg, id) EXCEPT !.calls = @ + 1], "removeGameObject", {})

\* object.destroy(), between two frames
Destroy(object) ==
  /\ arg.calls < MaxGameCalls
  /\ arg.objects[object].active
  /\ GameCall([arg EXCEPT !.objects[object] = destroy(@), !.calls = @ + 1], "destroy", {})

GameFrame(stepped, destroyed) ==
  GameCall([gameUpdate(arg, stepped, destroyed) EXCEPT !.frames = @ + 1],
           "update", stepped.notified)

\* One frame of the game loop: GameEngine.update(1), whose update callback
\* destroys the instances in destroyed.
GameUpdate(destroyed) ==
  /\ arg.frames < MaxFrames
  /\ GameFrame(basicUpdate(arg.objects, arg.physics, 1), destroyed)

NextGame ==
  \/ \E object \in Instances : AddGameObject(object)
  \/ \E id \in {P, Q} : RemoveGameObject(id)
  \/ \E object \in Instances : Destroy(object)
  \/ \E destroyed \in SUBSET Instances : GameUpdate(destroyed)

SpecGame == InitGame /\ [][NextGame]_vars

\* The instances a map holds.
Held(map) == {map[i].object : i \in DOMAIN map}

\* C26: at the end of every GameEngine frame no inactive instance is
\* registered in the GameEngine or in its PhysicsEngine, and an instance that
\* was inactive when the frame began is in no pair that the frame's collision
\* handling resolved and notified.
C26_InactiveRemoved ==
  (phase = "game" /\ ret.op = "update") =>
    /\ \A object \in Held(arg.gameObjects) \cup Held(arg.physics) :
          arg.objects[object].active
    /\ \A pair \in ret.notified : pair \cap ret.inactive = {}

----------------------------------------------------------------------------
(* raycast.  The parameters t of the ray are IEEE doubles (a division by a *)
(* zero direction component gives an infinity or NaN); lengths are on the  *)
(* grid and the normalized direction is in thousandths.  The optional      *)
(* argument layers is not passed.                                          *)

NoHit == [hit |-> FALSE, object |-> << >>, distance |-> Infinity(1), normal |-> Zero]

\* raycastAABB(origin, direction, maxDistance, bounds)
raycastAABB(origin, direction, maxDistance, bounds) ==
  LET min(a, b) == IF isNaN(a) \/ isNaN(b) THEN NaN ELSE IF fLess(b, a) THEN b ELSE a
      max(a, b) == IF isNaN(a) \/ isNaN(b) THEN NaN ELSE IF fLess(a, b) THEN b ELSE a
      over(n, d) == fDivide(Fin(n * 1000), Fin(d))
      tMin == [x |-> over(bounds.left - origin.x, direction.x),
               y |-> over(bounds.top - origin.y, direction.y)]
      tMax == [x |-> over(bounds.right - origin.x, direction.x),
               y |-> over(bounds.bottom - origin.y, direction.y)]
      t1 == [x |-> min(tMin.x, tMax.x), y |-> min(tMin.y, tMax.y)]
      t2 == [x |-> max(tMin.x, tMax.x), y |-> max(tMin.y, tMax.y)]
      tNear == max(t1.x, t1.y)
      tFar  == min(t2.x, t2.y)
  IN  IF fLess(tFar, tNear) \/ fLess(tFar, Fin(0)) \/ fLess(Fin(maxDistance), tNear)
      THEN NoHit
      ELSE [hit      |-> TRUE,
            object   |-> << >>,
            distance |-> IF fLess(Fin(0), tNear) THEN tNear ELSE tFar,
            normal   |-> IF fLess(t1.y, t1.x)
                         THEN Vec(IF direction.x > 0 THEN -1 ELSE 1, 0)
                         ELSE Vec(0, IF direction.y > 0 THEN -1 ELSE 1)]

\* raycast(origin, direction, maxDistance)
raycast(w, origin, direction, maxDistance) ==
  LET normalizedDirection == normalize(direction)
      Step(closestHit, id) ==
        LET o   == w.objs[id]
            hit == raycastAABB(origin, normalizedDirection, maxDistance, getBounds(o))
        IN  IF ~o.active \/ ~o.hasPhysics THEN closestHit
            ELSE IF hit.hit /\ fLess(hit.distance, closestHit.distance)
            THEN [hit EXCEPT !.object = id]
            ELSE closestHit
  IN  FoldSeq(Step, NoHit, w.gameObjects)

RayOrigins ==
  {Vec(-Px(50), 0), Vec(-Px(20), 0), Vec(0, 0), Vec(Px(4), -Px(5)), Vec(Px(20), 0),
   Vec(0, -Px(20))}

RayDirections == {Vec(1, 0), Vec(-1, 0), Vec(0, 1), Vec(3, 4), Zero}

RayDistances == {Px(3), Px(12), Px(100)}

\* The bodies of TriggerScene: p at (-30, 0), p2 at (0, 0), q at (4, 0), 10 x 10 each.
InitRay ==
  /\ InitEngine(TriggerScene, NewConfig(TRUE, FALSE, TRUE))
  /\ NoBoxes
  /\ phase = "aiming"
  /\ \E origin \in RayOrigins, direction \in RayDirections, maxDistance \in RayDistances :
        arg = [origin |-> origin, direction |-> direction, maxDistance |-> maxDistance]
  /\ ret = NoHit

\* engine.raycast(origin, direction, maxDistance)
Raycast ==
  /\ phase = "aiming"
  /\ ret' = raycast(World, arg.origin, arg.direction, arg.maxDistance)
  /\ phase' = "cast"
  /\ UNCHANGED << boxA, boxB, hitAB, hitBA, resolved, arg >>
  /\ UNCHANGED engineVars

NextRay == Raycast

SpecRay == InitRay /\ [][NextRay]_vars

\* Every corner of the box of o is behind the origin of the ray.
EntirelyBehind(o, origin, direction) ==
  LET bounds == getBounds(o)
  IN  \A x \in {bounds.left, bounds.right}, y \in {bounds.top, bounds.bottom} :
         dot(subtract(Vec(x, y), origin), direction) < 0

\* C27: a raycast that reports a hit reports a distance between 0 and
\* maxDistance, never a box that lies entirely behind the origin, and no
\* registered box is hit by the ray nearer than the one reported.
C27_RaycastWithinRange ==
  (phase = "cast" /\ ret.hit) =>
    /\ isFinite(ret.distance)
    /\ 0 <= ret.distance.v /\ ret.distance.v <= arg.maxDistance
    /\ ~EntirelyBehind(objs[ret.object], arg.origin, arg.direction)
    /\ \A id \in Range(gameObjects) :
          LET other == raycastAABB(arg.origin, normalize(arg.direction),
                                   arg.maxDistance, getBounds(objs[id]))
          IN  other.hit => ~fLess(other.distance, ret.distance)

----------------------------------------------------------------------------
(* GameLoop, src/core/GameLoop.ts.  Time is counted in units of 1/240 s:   *)
(* the floor 1/120 s is 2, the default maxDeltaTime 0.05 s is 12, and the  *)
(* fixed step 1/targetFPS is 4 at 60 FPS and 8 at 30 FPS.  arg is the loop *)
(* object with the clock performance.now(); ret is the last call, with the *)
(* deltaTimes a frame handed to the update callback and the amount it      *)
(* added to the accumulator.                                               *)

\* const minDeltaTime = 1/120
MinDeltaTime == 2

\* config.maxDeltaTime || 0.05
DefaultMaxDeltaTime == 12

\* new GameLoop(config)
NewGameLoop(targetFPS, maxDeltaTime, enableFixedTimeStep) ==
  [config |-> [targetFPS |-> targetFPS,
               maxDeltaTime |-> IF maxDeltaTime = 0 THEN DefaultMaxDeltaTime
                                ELSE maxDeltaTime,
               enableFixedTimeStep |-> enableFixedTimeStep],
   isRunning |-> FALSE, lastTime |-> 0, accumulator |-> 0, now |-> 0, frames |-> 0]

\* The deltaTime of a frame: the elapsed time, limited and then floored.
frameDeltaTime(loop) ==
  LET limited == Min(loop.now - loop.lastTime, loop.config.maxDeltaTime)
  IN  IF limited < MinDeltaTime THEN MinDeltaTime ELSE limited

RECURSIVE fixedSteps(_, _)
\* The while loop of fixedTimeStepLoop: the steps handed to the update
\* callback and the accumulator left.
fixedSteps(accumulator, fixedDeltaTime) ==
  IF accumulator >= fixedDeltaTime
  THEN LET rest == fixedSteps(accumulator - fixedDeltaTime, fixedDeltaTime)
       IN  [handed |-> << fixedDeltaTime >> \o rest.handed, accumulator |-> rest.accumulator]
  ELSE [handed |-> << >>, accumulator |-> accumulator]

\* gameLoop(): the loop after the frame and what the frame did.
gameLoop(loop, deltaTime) ==
  IF loop.config.enableFixedTimeStep
  THEN LET drained == fixedSteps(loop.accumulator + deltaTime,
                                 240 \div loop.config.targetFPS)
       IN  [loop   |-> [loop EXCEPT !.lastTime = loop.now,
                                    !.accumulator = drained.accumulator],
            handed |-> drained.handed, added |-> deltaTime]
  ELSE [loop   |-> [loop EXCEPT !.lastTime = loop.now],
        handed |-> << deltaTime >>, added |-> 0]

InitLoop ==
  /\ InitEngine(StaticScene, NewConfig(TRUE, FALSE, FALSE))
  /\ NoBoxes
  /\ phase = "loop"
  /\ \E targetFPS \in {30, 60}, maxDeltaTime \in {0, 1, 8}, fixed \in BOOLEAN :
        arg = NewGameLoop(targetFPS, maxDeltaTime, fixed)
  /\ ret = [op |-> "new", handed |-> << >>, added |-> 0]

MaxLoopFrames == 3

LoopCall(loop, op, handed, added) ==
  /\ phase = "loop"
  /\ arg' = loop
  /\ ret' = [op |-> op, handed |-> handed, added |-> added]
  /\ UNCHANGED << boxA, boxB, phase, hitAB, hitBA, resolved >>
  /\ UNCHANGED engineVars

\* start(): the first frame runs at once, with no time elapsed.
StartLoop ==
  /\ ~arg.isRunning
  /\ arg.frames < MaxLoopFrames
  /\ LET started == [arg EXCEPT !.isRunning = TRUE, !.lastTime = arg.now,
                                !.accumulator = 0, !.frames = @ + 1]
         frame   == gameLoop(started, frameDeltaTime(started))
     IN  LoopCall(frame.loop, "frame", frame.handed, frame.added)

\* stop()
StopLoop ==
  /\ arg.isRunning
  /\ LoopCall([arg EXCEPT !.isRunning = FALSE], "stop", << >>, 0)

\* The animation frame fires after elapsed units of wall-clock time.
AnimationFrame(elapsed) ==
  /\ arg.isRunning
  /\ arg.frames < MaxLoopFrames
  /\ LET ticked == [arg EXCEPT !.now = @ + elapsed, !.frames = @ + 1]
         frame  == gameLoop(ticked, frameDeltaTime(ticked))
     IN  LoopCall(frame.loop, "frame", frame.handed, frame.added)

NextLoop ==
  \/ StartLoop
  \/ StopLoop
  \/ \E elapsed \in {0, 1, 3, 4, 9, 20} : AnimationFrame(elapsed)

SpecLoop == InitLoop /\ [][NextLoop]_vars

\* C28: every deltaTime a frame hands to the update callback in variable-step
\* mode, and every amount a frame adds to the accumulator in fixed-step mode,
\* is at most config.maxDeltaTime.
C28_DeltaTimeLimited ==
  (phase = "loop" /\ ret.op = "frame") =>
    /\ ~arg.config.enableFixedTimeStep =>
         \A i \in DOMAIN ret.handed : ret.handed[i] <= arg.config.maxDeltaTime
    /\ arg.config.enableFixedTimeStep => ret.added <= arg.config.maxDeltaTime

----------------------------------------------------------------------------
(* Pairs that collision handling has to leave alone.  Three bodies overlap *)
(* pairwise; p and q are the pair under test and p2 overlaps both.         *)

\* p and q share the collisionGroup "g"; q is built at rest or fast.
GroupScene(velocity) ==
  [objs |-> (P  :> [NewObject(P, 0, 0) EXCEPT !.collisionGroup = "g"]
          @@ P2 :> NewObject(P2, Px(8), 0)
          @@ Q  :> [NewObject(Q, Px(4), 0) EXCEPT !.collisionGroup = "g",
                                                  !.velocity = velocity]),
   gameObjects |-> << P, P2, Q >>,
   joints |-> << >>,
   gravity |-> Zero,
   worldBounds |-> Undefined]

\* q.destroy() was called before the first update.
InactiveScene(velocity) ==
  [GroupScene(velocity) EXCEPT !.objs[P].collisionGroup = "",
                               !.objs[Q] = destroy([@ EXCEPT !.collisionGroup = ""])]

\* p and q are static.
StaticPairScene(velocity) ==
  [GroupScene(Zero) EXCEPT !.objs[P].collisionGroup = "", !.objs[P].isStatic = TRUE,
                            !.objs[Q].collisionGroup = "", !.objs[Q].isStatic = TRUE,
                            !.objs[P2].velocity = velocity]

\* p is a dynamic trigger, q a dynamic body on it, both at rest: no resolution
\* wakes them, and both fall asleep; p2 is static and apart.
AsleepScene ==
  [GroupScene(Zero) EXCEPT !.objs[P].collisionGroup = "", !.objs[P].isTrigger = TRUE,
                            !.objs[Q].collisionGroup = "",
                            !.objs[P2] = [NewObject(P2, Px(40), 0) EXCEPT !.isStatic = TRUE]]

GateScenes ==
  {AsleepScene}
    \cup {GroupScene(velocity) : velocity \in {Zero, Vec(Px(12), 0)}}
    \cup {InactiveScene(velocity) : velocity \in {Zero, Vec(Px(12), 0)}}
    \cup {StaticPairScene(velocity) : velocity \in {Zero, Vec(Px(12), 0)}}

InitGate ==
  /\ \E scene \in GateScenes, ccd \in BOOLEAN, broad \in BOOLEAN :
        InitEngine(scene, NewConfig(TRUE, ccd, broad))
  /\ NoDetect

MaxGateUpdates == 64

NextGate == \E deltaTime \in {1, 2} : Update(deltaTime, MaxGateUpdates)

SpecGate == InitGate /\ [][NextGate]_vars

\* C29: collision handling finds, resolves and reports only pairs whose bodies
\* are both active, not both static, without a shared non-empty collisionGroup
\* and not both asleep: it moves or re-speeds a body only as a member of such
\* a pair, and every enter event is of such a pair; an update that takes the
\* CCD path is held to the same.
C29_OnlyAdmittedPairs ==
  /\ barredPairs = {}
  /\ \A id \in touched : \E key \in metPairs : KeyHas(key, id)
  /\ \A i \in DOMAIN emitted :
        emitted[i].type \in EnterTypes => EventKey(emitted[i]) \in metPairs

\* An update has run to its end and handled a pair while p and q overlapped
\* and were barred: inactive, both static, of one group, or both asleep.
C29_Witness ==
  /\ lastOp = "update" /\ ~threw
  /\ metPairs # {}
  /\ Overlapping(P, Q)
  /\ ~Admitted(World, P, Q)

----------------------------------------------------------------------------
(* Positional correction, in both engines *)

\* Two overlapping boxes, each static or not, of masses 1 or 3, at rest.
InitSeparate ==
  /\ InitEngine(TriggerScene, NewConfig(TRUE, FALSE, TRUE))
  /\ \E sizeA \in BoxSizes, sizeB \in BoxSizes, at \in BoxOffsets,
        mA \in BoxMasses, mB \in BoxMasses,
        staticA \in BOOLEAN, staticB \in BOOLEAN :
        /\ boxA = [NewObject(P, 0, 0) EXCEPT !.size = sizeA, !.mass = mA,
                                             !.isStatic = staticA]
        /\ boxB = [NewObject(Q, at.x, at.y) EXCEPT !.size = sizeB, !.mass = mB,
                                                   !.isStatic = staticB]
  /\ phase = "boxes"
  /\ hitAB = Null /\ hitBA = Null /\ resolved = Undefined
  /\ arg = Undefined /\ ret = Undefined

SpecSeparate == InitSeparate /\ [][NextDetect]_vars

\* penetration * (1/mOwn) / (1/mOwn + 1/mOther), in lowest terms of the grid
MassShare(penetration, own, other) ==
  Quot(penetration * other.mass, own.mass + other.mass)

Displacement(before, after) == subtract(after.position, before.position)

\* Overlap of the pair on the axis of the normal.
OverlapAlong(normal, a, b) ==
  IF normal.y = 0 THEN OverlapX(a, b) ELSE OverlapY(a, b)

\* The displacements are those of a split of the penetration by inverse mass:
\* along the normal, opposite, of the two shares, leaving no overlap.
SplitByInverseMass(pair) ==
  LET normal == hitAB.normal
      movedA == Displacement(boxA, pair[1])
      movedB == Displacement(boxB, pair[2])
      shareA == MassShare(hitAB.penetration, boxA, boxB)
      shareB == MassShare(hitAB.penetration, boxB, boxA)
  IN  /\ \/ movedA = multiply(normal, shareA) /\ movedB = multiply(normal, -shareB)
         \/ movedA = multiply(normal, -shareA) /\ movedB = multiply(normal, shareB)
      /\ shareA + shareB = hitAB.penetration
      /\ OverlapAlong(normal, pair[1], pair[2]) = 0

\* The static body stays and the other one takes the whole penetration.
StaticAbsorbsNone(pair) ==
  LET normal == hitAB.normal
      movedA == Displacement(boxA, pair[1])
      movedB == Displacement(boxB, pair[2])
      whole  == {multiply(normal, hitAB.penetration), multiply(normal, -hitAB.penetration)}
  IN  /\ boxA.isStatic => movedA = Zero /\ movedB \in whole
      /\ boxB.isStatic => movedB = Zero /\ movedA \in whole

PositionalCorrection(pair) ==
  /\ (~boxA.isStatic /\ ~boxB.isStatic) => SplitByInverseMass(pair)
  /\ (boxA.isStatic # boxB.isStatic) => StaticAbsorbsNone(pair)

\* C30: positional correction splits the penetration inversely to mass: two
\* non-static bodies move by penetration*(1/mA)/(1/mA+1/mB) and
\* penetration*(1/mB)/(1/mA+1/mB) in opposite directions along the normal, the
\* displacements sum to the penetration and no overlap is left on that axis; when
\* exactly one body is static it stays and the other moves by the whole penetration.
C30_PenetrationSplitByMass ==
  phase = "resolved" =>
    /\ PositionalCorrection(resolved.extended)
    /\ PositionalCorrection(resolved.basic)

----------------------------------------------------------------------------
(* A sleeper hit by a moving body *)

\* Two dynamic bodies at rest one pixel apart, no gravity; q may be elastic.
WakeScene(restitution) ==
  [objs |-> (P  :> [NewObject(P, 0, 0) EXCEPT !.restitution = restitution]
          @@ P2 :> [NewObject(P2, 0, Px(14)) EXCEPT !.isStatic = TRUE]
          @@ Q  :> [NewObject(Q, Px(11), 0) EXCEPT !.restitution = restitution]),
   gameObjects |-> << P, P2, Q >>,
   joints |-> << >>,
   gravity |-> Zero,
   worldBounds |-> Undefined]

InitWake ==
  /\ \E restitution \in BoxRestitutions, broad \in BOOLEAN :
        InitEngine(WakeScene(restitution), NewConfig(TRUE, FALSE, broad))
  /\ NoDetect

MaxWakeCalls == 1

MaxWakeUpdates == 66

\* physicsEngine.clear()
Clear(limit) ==
  /\ calls < limit
  /\ Tame
  /\ calls' = calls + 1
  /\ lastOp' = "clear"
  /\ lastId' = << >>
  /\ Commit([clear(World) EXCEPT !.ran = ran])
  /\ joints' = << >>
  /\ entered' = {}
  /\ poked' = {}
  /\ UNCHANGED << gravity, config, worldBounds, isPaused, lastDt, created,
                  alternationBroken, lowStreak, metPairs, touched, missedPairs,
                  barredPairs, due, updates >>
  /\ UNCHANGED detectVars

\* Once the bodies sleep the caller pushes p toward q or away from it, or
\* removes a body, or all of them.
NextWake ==
  \/ Update(1, MaxWakeUpdates)
  \/ AnySleeping /\ \E impulse \in {Nudge, multiply(Nudge, 2), multiply(Nudge, -1)} :
                       ApplyImpulse(P, impulse, MaxWakeCalls)
  \/ AnySleeping /\ RemoveObject(Q, MaxWakeCalls)
  \/ AnySleeping /\ Clear(MaxWakeCalls)

SpecWake == InitWake /\ [][NextWake]_vars

WakesOf(events, id) == {i \in DOMAIN events : events[i] = ObjectEvent("object-wake", id)}

\* The body sleeps as update() begins and that update() resolves a solid collision of it.
SleeperHit(id) ==
  /\ UpdateStep /\ ~threw'
  /\ Contains(gameObjects, id) /\ objs[id].isSleeping
  /\ \E key \in metPairs' : KeyHas(key, id) /\ ~HasTrigger(key)

\* C31: a sleeping body involved in a resolved solid collision wakes at once: the
\* update() emits exactly one object-wake for it, resets its sleepTimer to zero, and
\* the body is awake when that update() returns.
C31_CollisionWakesSleeper ==
  [][\A id \in Ids :
        SleeperHit(id) =>
          /\ Cardinality(WakesOf(emitted', id)) = 1
          /\ objs'[id].sleepTimer = 0
          /\ ~objs'[id].isSleeping]_vars

----------------------------------------------------------------------------
(* GameLoop: start(), stop() and the animation-frame callbacks             *)
(*                                                                         *)
(* The loop is kept in arg with the browser's list of pending animation-   *)
(* frame requests: ids are positive, frameId 0 stands for null.  A         *)
(* callback of the game (update or render) may itself call stop() and      *)
(* start(); what it calls is its script.  ret counts the update callbacks  *)
(* the step ran.                                                           *)

\* requestAnimationFrame(this.gameLoop), stored in this.frameId
requestAnimationFrame(loop) ==
  [loop EXCEPT !.frameId = loop.nextId,
               !.pending = Append(@, loop.nextId),
               !.nextId  = @ + 1]

\* cancelAnimationFrame(id): an id that is not pending is ignored.
cancelAnimationFrame(loop, id) ==
  [loop EXCEPT !.pending = SelectSeq(@, LAMBDA pendingId : pendingId # id)]

\* stop()
stop(loop) ==
  LET halted == [loop EXCEPT !.isRunning = FALSE]
  IN  IF loop.frameId # 0
      THEN [cancelAnimationFrame(halted, loop.frameId) EXCEPT !.frameId = 0]
      ELSE halted

\* gameLoop() whose callbacks call neither start() nor stop()
gameLoopPlain(loop) ==
  IF ~loop.isRunning THEN loop
  ELSE requestAnimationFrame([loop EXCEPT !.updated = @ + 1])

\* start() called by a callback: the frame it runs is a plain one.
startNested(loop) ==
  IF loop.isRunning THEN loop
  ELSE gameLoopPlain([loop EXCEPT !.isRunning = TRUE])

\* The calls a callback makes, in order.
runScript(loop, script) ==
  LET Step(l, op) == IF op = "stop" THEN stop(l) ELSE startNested(l)
  IN  FoldSeq(Step, loop, script)

\* gameLoop(): the update callback, the render callback, then the next request.
gameLoopCallback(loop, updateScript, renderScript) ==
  IF ~loop.isRunning THEN loop
  ELSE requestAnimationFrame(
         runScript(runScript([loop EXCEPT !.updated = @ + 1], updateScript), renderScript))

\* start()
start(loop, updateScript, renderScript) ==
  IF loop.isRunning THEN loop
  ELSE gameLoopCallback([loop EXCEPT !.isRunning = TRUE], updateScript, renderScript)

\* The browser displays a frame: the requests pending at that moment fire in order.
displayFrame(loop, updateScript, renderScript) ==
  LET Step(l, id) == gameLoopCallback(l, updateScript, renderScript)
  IN  FoldSeq(Step, [loop EXCEPT !.pending = << >>], loop.pending)

UpdateScripts == {<< >>, << "stop" >>, << "start" >>, << "stop", "start" >>}

RenderScripts == {<< >>, << "stop" >>}

MaxRequests == 6

InitFrames ==
  /\ InitEngine(StaticScene, NewConfig(TRUE, FALSE, FALSE))
  /\ NoBoxes
  /\ phase = "frames"
  /\ arg = [isRunning |-> FALSE, frameId |-> 0, pending |-> << >>, nextId |-> 1,
            updated |-> 0, reentered |-> FALSE]
  /\ ret = [op |-> "new", updated |-> 0]

FramesCall(loop, op, reentrant) ==
  /\ phase = "frames"
  /\ arg.nextId <= MaxRequests
  /\ arg' = [loop EXCEPT !.updated = 0, !.reentered = @ \/ reentrant]
  /\ ret' = [op |-> op, updated |-> loop.updated]
  /\ UNCHANGED << boxA, boxB, phase, hitAB, hitBA, resolved >>
  /\ UNCHANGED engineVars

\* start() by the application (GameEngine.start / resume)
StartFrames ==
  \E updateScript \in UpdateScripts, renderScript \in RenderScripts :
     FramesCall(start(arg, updateScript, renderScript), "start",
                ~arg.isRunning /\ (updateScript # << >> \/ renderScript # << >>))

\* stop() by the application (GameEngine.pause / stop)
StopFrames == FramesCall(stop(arg), "stop", FALSE)

\* The next displayed frame.
DisplayFrame ==
  /\ arg.pending # << >>
  /\ \E updateScript \in UpdateScripts, renderScript \in RenderScripts :
        FramesCall(displayFrame(arg, updateScript, renderScript), "display",
                   arg.isRunning /\ (updateScript # << >> \/ renderScript # << >>))

NextFrames == StartFrames \/ StopFrames \/ DisplayFrame

SpecFrames == InitFrames /\ [][NextFrames]_vars

\* C32: for every interleaving of start() and stop(), calls from inside the update
\* or render callback and a start() after a stop() before the next frame included,
\* at most one animation-frame callback is pending, none is pending while the
\* loop is stopped, and a displayed frame runs the update callback at most once.
C32_OneFramePending ==
  phase = "frames" =>
    /\ Len(arg.pending) <= 1
    /\ ~arg.isRunning => arg.pending = << >>
    /\ ret.op = "display" => ret.updated <= 1

----------------------------------------------------------------------------
(* emit(): the dispatch of one event to its listeners                      *)
(*                                                                         *)
(* Each callback is registered at most once.  What a callback does when it *)
(* is invoked is its conduct: it may throw, and it may call the            *)
(* unsubscribe closures of some callbacks (its own included).              *)

Listeners == {"f", "g", "h"}

\* What a listener may do: nothing, throw, unsubscribe itself or one other listener.
Conducts(callback) ==
  {[throws |-> throws, removes |-> removes] :
     throws \in BOOLEAN,
     removes \in {{}} \cup {{other} : other \in Listeners}}

\* callback(data) inside the try block: the listeners after the call.  An
\* exception is caught and logged, after the closures the callback called.
callListener(eventListeners, event, conduct) ==
  LET Step(listeners, other) ==
        IF other \in conduct.removes THEN unsubscribe(listeners, event, other)
        ELSE listeners
  IN  FoldSeq(Step, eventListeners, << "f", "g", "h" >>)

RECURSIVE forEachListener(_, _, _, _, _, _)
\* listeners.forEach(callback => ...): indexes 1..length, the length read once at
\* the start, an index no longer present being skipped.
forEachListener(eventListeners, event, conducts, index, length, called) ==
  IF index > length THEN [eventListeners |-> eventListeners, invoked |-> called]
  ELSE IF index > Len(eventListeners[event])
  THEN forEachListener(eventListeners, event, conducts, index + 1, length, called)
  ELSE LET callback == eventListeners[event][index]
       IN  forEachListener(callListener(eventListeners, event, conducts[callback]),
                           event, conducts, index + 1, length,
                           Append(called, callback))

\* emit(event, data)
emitToListeners(eventListeners, event, conducts) ==
  forEachListener(eventListeners, event, conducts, 1, Len(eventListeners[event]), << >>)

MaxDispatchCalls == 5

InitDispatch ==
  /\ InitEngine(StaticScene, NewConfig(TRUE, FALSE, FALSE))
  /\ NoBoxes
  /\ phase = "dispatch"
  /\ arg = [eventListeners |-> [event \in ListenEvents |-> << >>],
            conducts |-> [callback \in Listeners |-> [throws |-> FALSE, removes |-> {}]],
            calls |-> 0]
  /\ ret = [op |-> "new", atStart |-> << >>, invoked |-> << >>]

DispatchCall(listeners, conducts, op, atStart, called) ==
  /\ phase = "dispatch"
  /\ arg.calls < MaxDispatchCalls
  /\ arg' = [eventListeners |-> listeners, conducts |-> conducts,
             calls |-> arg.calls + 1]
  /\ ret' = [op |-> op, atStart |-> atStart, invoked |-> called]
  /\ UNCHANGED << boxA, boxB, phase, hitAB, hitBA, resolved >>
  /\ UNCHANGED engineVars

\* engine.on('collision-start', callback), for a callback not subscribed
Subscribe(callback, conduct) ==
  /\ indexOf(arg.eventListeners["collision-start"], callback) = 0
  /\ DispatchCall(on(arg.eventListeners, "collision-start", callback),
                  [arg.conducts EXCEPT ![callback] = conduct],
                  "on", << >>, << >>)

\* this.emit('collision-start', data)
Dispatch ==
  LET done == emitToListeners(arg.eventListeners, "collision-start", arg.conducts)
  IN  DispatchCall(done.eventListeners, arg.conducts, "emit",
                   arg.eventListeners["collision-start"], done.invoked)

NextDispatch ==
  \/ \E callback \in Listeners : \E conduct \in Conducts(callback) :
        Subscribe(callback, conduct)
  \/ Dispatch

SpecDispatch == InitDispatch /\ [][NextDispatch]_vars

\* C33: when the engine emits an event, every listener subscribed to it at the
\* start of the emission is invoked exactly once, in registration order, even if
\* a listener throws or unsubscribes itself or another listener during the dispatch.
C33_EveryListenerInvoked ==
  (phase = "dispatch" /\ ret.op = "emit") => ret.invoked = ret.atStart

----------------------------------------------------------------------------
(* Pausing over the app's life cycle                                       *)
(*                                                                         *)
(* arg.timers counts the timeouts handleOrientationChange has scheduled    *)
(* and that have not fired; arg.held records that the caller's last word   *)
(* was a pause (pause(), or the app going to background or inactive)       *)
(* rather than a resume; arg.turned that the orientation ever changed.     *)
(* One unit of time is 1/60 s, the targetTimeStep of the medium quality.   *)

\* setQualityLevel("medium")
setQualityLevelMedium(cfg) ==
  [cfg EXCEPT !.maxSubsteps = 4,
              !.targetTimeStep = 1,
              !.enableCCD = FALSE,
              !.broadPhaseOptimization = TRUE,
              !.spatialHashCellSize = Px(100)]

Orientations == {"portrait", "landscape"}

AppStates == {"active", "background", "inactive"}

MaxLifeCalls == 4

MaxLifeUpdates == 2

InitLife ==
  /\ \E broad \in BOOLEAN : InitEngine(StaticScene, NewConfig(TRUE, FALSE, broad))
  /\ NoBoxes
  /\ phase = "life"
  /\ arg = [timers |-> 0, held |-> FALSE, turned |-> FALSE]
  /\ ret = Undefined

\* The part the life-cycle operations share.
LifeCall(op, paused, cfg, life) ==
  /\ phase = "life"
  /\ calls < MaxLifeCalls
  /\ calls' = calls + 1
  /\ lastOp' = op
  /\ lastId' = << >>
  /\ isPaused' = paused
  /\ config' = cfg
  /\ emitted' = << >>
  /\ threw' = FALSE
  /\ arg' = life
  /\ UNCHANGED << objs, gameObjects, rigidBodies, activeCollisions, joints, gravity,
                  worldBounds, spatialHash, sleepingObjects, lastDt, ran,
                  created, entered, alternationBroken, lowStreak, metPairs, touched,
                  missedPairs, barredPairs, poked, due, updates >>
  /\ UNCHANGED << boxA, boxB, phase, hitAB, hitBA, resolved, ret >>

\* physicsEngine.pause() by the application
AppPause == LifeCall("pause", TRUE, config, [arg EXCEPT !.held = TRUE])

\* physicsEngine.resume() by the application
AppResume == LifeCall("resume", FALSE, config, [arg EXCEPT !.held = FALSE])

\* physicsEngine.handleAppStateChange(appState)
HandleAppStateChange(appState) ==
  IF appState \in {"background", "inactive"}
  THEN LifeCall("handleAppStateChange", TRUE, config, [arg EXCEPT !.held = TRUE])
  ELSE LifeCall("handleAppStateChange", FALSE, config, [arg EXCEPT !.held = FALSE])

\* physicsEngine.handleOrientationChange(newOrientation)
HandleOrientationChange(newOrientation) ==
  LifeCall("handleOrientationChange", TRUE,
           IF newOrientation = "landscape" THEN setQualityLevelMedium(config) ELSE config,
           [arg EXCEPT !.timers = @ + 1, !.turned = TRUE])

\* The callback of setTimeout(..., 100) runs: this.resume()
OrientationTimer ==
  /\ arg.timers > 0
  /\ LifeCall("timer", FALSE, config, [arg EXCEPT !.timers = @ - 1])

NextLife ==
  \/ Update(1, MaxLifeUpdates)
  \/ AppPause
  \/ AppResume
  \/ \E appState \in AppStates : HandleAppStateChange(appState)
  \/ \E newOrientation \in Orientations : HandleOrientationChange(newOrientation)
  \/ OrientationTimer

SpecLife == InitLife /\ [][NextLife]_vars

\* C34: an engine paused by pause() or by handleAppStateChange('background' or
\* 'inactive') stays paused until resume() or handleAppStateChange('active'): no
\* other operation or timer, the delayed resume of handleOrientationChange
\* included, un-pauses it, in every interleaving.
C34_PauseHeldUntilResume ==
  (phase = "life" /\ arg.held) => isPaused

----------------------------------------------------------------------------
Sleepers == {id \in Range(gameObjects) : objs[id].isSleeping}

\* C35: after every update() and every removeObject or clear call,
\* performanceMetrics.sleepingObjects is the number of registered bodies whose
\* isSleeping flag is true, and is never negative.
C35_SleepingCountExact ==
  /\ lastOp \in {"update", "removeObject", "clear"} =>
       sleepingObjects = Cardinality(Sleepers)
  /\ sleepingObjects >= 0

----------------------------------------------------------------------------
\* The (id, instance) entries of a map.
Entries(map) == {<< map[i].id, map[i].object >> : i \in DOMAIN map}

\* C36: after any sequence of addGameObject, removeGameObject and frames, a second
\* object under an id in use included, the PhysicsEngine's registered objects are
\* exactly the GameEngine's registered objects that have a physics body: every id
\* the physics engine simulates maps to the same instance in the GameEngine.
C36_PhysicsMirrorsGame ==
  phase = "game" =>
    Entries(arg.physics) =
      {entry \in Entries(arg.gameObjects) : arg.objects[entry[2]].hasPhysics}

----------------------------------------------------------------------------
\* The object-sleep and object-wake events of a body among events, in order.
SleepWakeOf(events, id) ==
  SelectSeq(events, LAMBDA event : event \in {ObjectEvent("object-sleep", id),
                                              ObjectEvent("object-wake", id)})

\* The events continue an alternation that the flag asleep was the last word
\* of, and the flag after is the last word again.
AlternatesFrom(asleep, events, asleepAfter) ==
  /\ \A i \in DOMAIN events :
        events[i].type = (IF (i % 2 = 1) = asleep THEN "object-wake" ELSE "object-sleep")
  /\ asleepAfter = (IF Len(events) % 2 = 0 THEN asleep ELSE ~asleep)

----------------------------------------------------------------------------
(* Bodies at the walls: a world of 40 x 40 without wrap; q drifts toward   *)
(* the right wall with p overlapping it on the way, and p2 is built        *)
(* outside the world, beyond the bottom wall.  No gravity.                 *)

WallScene(velocity) ==
  [objs |-> (P  :> NewObject(P, Px(6), 0)
          @@ P2 :> [NewObject(P2, 0, Px(30)) EXCEPT !.velocity = Vec(0, Px(1))]
          @@ Q  :> [NewObject(Q, Px(13), 0) EXCEPT !.velocity = velocity]),
   gameObjects |-> << P, P2, Q >>,
   joints |-> << >>,
   gravity |-> Zero,
   worldBounds |-> Box20]

InitWalls ==
  /\ \E velocity \in {Vec(Px(6), 0), Vec(Px(8), -Px(18))}, sleeping \in BOOLEAN,
        broad \in BOOLEAN :
        InitEngine(WallScene(velocity), NewConfig(sleeping, FALSE, broad))
  /\ NoDetect

MaxWallCalls == 2

MaxWallUpdates == 3

NextWalls ==
  \/ \E deltaTime \in {0, 1, 2} : Update(deltaTime, MaxWallUpdates)
  \/ Pause(MaxWallCalls)
  \/ Resume(MaxWallCalls)
  \/ ApplyImpulse(Q, Push, MaxWallCalls)

SpecWalls == InitWalls /\ [][NextWalls]_vars

\* The box of the body is no larger than the world.
FitsWorld(o) ==
  /\ o.size.x <= worldBounds.right - worldBounds.left
  /\ o.size.y <= worldBounds.bottom - worldBounds.top

\* The box of the body lies inside the world bounds.
InsideWorld(o) ==
  /\ getBounds(o).left >= worldBounds.left
  /\ getBounds(o).right <= worldBounds.right
  /\ getBounds(o).top >= worldBounds.top
  /\ getBounds(o).bottom <= worldBounds.bottom

\* C38: with world bounds set and wrap unset, at the return of every update() the
\* bounding box of every non-static registered body that is no larger than the
\* world lies inside the world bounds, whatever its velocity and whatever
\* collisions occurred in that update.
C38_BodiesStayInsideWorld ==
  (lastOp = "update" /\ ~threw /\ worldBounds # Undefined /\ ~worldBounds.wrap) =>
    \A id \in Range(gameObjects) :
       (objs[id].hasPhysics /\ ~objs[id].isStatic /\ FitsWorld(objs[id]))
         => InsideWorld(objs[id])

----------------------------------------------------------------------------
(* A listener that removes a colliding body.                               *)
(*                                                                         *)
(* The caller registered one callback for collision-start and              *)
(* trigger-enter; it calls removeObject on one member of the pair of the   *)
(* event, the one arg.removes names.  p and q are dynamic and overlap, p2  *)
(* is a static trigger that q overlaps.                                    *)

ListenerScene ==
  [objs |-> (P  :> NewObject(P, 0, 0)
          @@ P2 :> [NewObject(P2, Px(10), 0) EXCEPT !.isStatic = TRUE, !.isTrigger = TRUE,
                                                    !.affectedByGravity = FALSE]
          @@ Q  :> NewObject(Q, Px(4), 0)),
   gameObjects |-> << P, P2, Q >>,
   joints |-> << >>,
   gravity |-> Zero,
   worldBounds |-> Undefined]

InitRemoving ==
  /\ \E broad \in BOOLEAN, sleeping \in BOOLEAN :
        InitEngine(ListenerScene, NewConfig(sleeping, FALSE, broad))
  /\ NoBoxes
  /\ phase = "listener"
  /\ \E member \in {"objectA", "objectB"} : arg = [removes |-> member]
  /\ ret = Undefined

MaxRemovingCalls == 2

MaxRemovingUpdates == 3

\* The caller adds again a body that a listener removed.
NextRemoving ==
  \/ \E deltaTime \in {1, 2} : Update(deltaTime, MaxRemovingUpdates)
  \/ \E id \in Ids : ~Contains(gameObjects, id) /\ AddObject(id, MaxRemovingCalls)

SpecRemoving == InitRemoving /\ [][NextRemoving]_vars

\* The ids the step removed from the engine.
RemovedByStep == Range(gameObjects) \ Range(gameObjects')

\* The step emits an enter event of the pair.
PairEnters(key) ==
  \E i \in DOMAIN emitted' :
     emitted'[i].type \in EnterTypes /\ EventKey(emitted'[i]) = key

\* C39: if a collision-start or trigger-enter listener calls removeObject on one
\* of the two colliding bodies during update(), then at the return of update() the
\* set of currently-colliding pairs holds no pair of the removed id, so that a
\* body later added under that id gets a fresh enter event on its first overlap
\* with the same partner.
C39_ListenerRemovalForgetsPairs ==
  /\ [][UpdateStep =>
          \A id \in RemovedByStep :
             \A key \in Range(activeCollisions') : id \notin Range(SplitKey(key))]_vars
  /\ [][(UpdateStep /\ lastOp = "addObject") =>
          \A key \in metPairs' : lastId \in Range(SplitKey(key)) => PairEnters(key)]_vars

----------------------------------------------------------------------------
(* TouchInputManager: the active touches, the long-press timer and the      *)
(* gestures.  Time is in milliseconds and advances in steps of TouchTick;   *)
(* a timer set with setTimeout is a record of the set timers, with the      *)
(* handle setTimeout returned, the time it is due and the touch its         *)
(* callback captured.  Touches move along the x axis (clientY = 0).         *)

deadZone == 5

gestureThreshold == 20

tapTimeout == 300

doubleTapTimeout == 500

longPressTimeout == 800

TouchTick == 400

MaxNow == 800

MaxTimers == 2

TouchIds == {1, 2}

ClientXs == {0, 3, 30}

\* Map.set and Map.delete of activeTouches, a function on the active identifiers
TouchSet(map, id, touch) ==
  [k \in DOMAIN map \cup {id} |-> IF k = id THEN touch ELSE map[k]]

TouchDelete(map, id) == [k \in DOMAIN map \ {id} |-> map[k]]

createGameTouchEvent(touch, type, now) ==
  [id |-> touch.identifier, position |-> Vec(touch.clientX, touch.clientY),
   timestamp |-> now, type |-> type]

notifyGesture(m, gesture) == [m EXCEPT !.gestures = Append(@, gesture)]

\* this.longPressTimer = setTimeout(() => notifyGesture(longpress of touch), ...)
handleGestureStart(m, touch) ==
  [m EXCEPT !.timers = @ \cup {[handle |-> m.nextHandle,
                                due |-> m.now + longPressTimeout,
                                touch |-> touch]},
            !.longPressTimer = m.nextHandle,
            !.nextHandle = @ + 1]

\* if (this.longPressTimer) { clearTimeout(this.longPressTimer); ... = null }
clearLongPressTimer(m) ==
  IF m.longPressTimer # 0
  THEN [m EXCEPT !.timers = {t \in @ : t.handle # m.longPressTimer},
                 !.longPressTimer = 0]
  ELSE m

handleGestureMove(m, currentTouch, previousTouch) ==
  LET cleared == clearLongPressTimer(m)
      dist == distance(currentTouch.position, previousTouch.position)
  IN  IF dist > gestureThreshold
      THEN notifyGesture(cleared, [type |-> "swipe",
                                   position |-> currentTouch.position,
                                   distance |-> dist,
                                   touches |-> << currentTouch >>])
      ELSE cleared

handleGestureEnd(m, currentTouch, startTouch) ==
  LET cleared == clearLongPressTimer(m)
      dist == distance(currentTouch.position, startTouch.position)
      duration == currentTouch.timestamp - startTouch.timestamp
  IN  IF dist < gestureThreshold /\ duration < tapTimeout
      THEN IF /\ m.lastTapPosition # Undefined
              /\ distance(m.lastTapPosition, currentTouch.position) < gestureThreshold
              /\ m.now - m.lastTapTime < doubleTapTimeout
           THEN [notifyGesture(cleared, [type |-> "doubletap",
                                         position |-> currentTouch.position,
                                         touches |-> << currentTouch >>])
                   EXCEPT !.lastTapPosition = Undefined, !.lastTapTime = 0]
           ELSE [notifyGesture(cleared, [type |-> "tap",
                                         position |-> currentTouch.position,
                                         touches |-> << currentTouch >>])
                   EXCEPT !.lastTapPosition = currentTouch.position,
                          !.lastTapTime = m.now]
      ELSE cleared

\* The body of the loop of handleTouchStart, for one changed touch.
touchStarted(m, touch) ==
  LET gameTouch == createGameTouchEvent(touch, "start", m.now)
  IN  handleGestureStart(
        [m EXCEPT !.activeTouches = TouchSet(@, touch.identifier, gameTouch)],
        gameTouch)

handleTouchStart(m, changedTouches) == FoldSeq(touchStarted, m, changedTouches)

\* The changed touch is active and its new position is beyond the dead zone.
movesBeyondDeadZone(m, touch) ==
  /\ touch.identifier \in DOMAIN m.activeTouches
  /\ distance(Vec(touch.clientX, touch.clientY),
              m.activeTouches[touch.identifier].position) > deadZone

touchMoved(m, touch) ==
  IF movesBeyondDeadZone(m, touch)
  THEN LET existingTouch == m.activeTouches[touch.identifier]
           gameTouch == createGameTouchEvent(touch, "move", m.now)
       IN  handleGestureMove(
             [m EXCEPT !.activeTouches = TouchSet(@, touch.identifier, gameTouch)],
             gameTouch, existingTouch)
  ELSE m

handleTouchMove(m, changedTouches) == FoldSeq(touchMoved, m, changedTouches)

touchEnded(m, touch) ==
  IF touch.identifier \in DOMAIN m.activeTouches
  THEN LET existingTouch == m.activeTouches[touch.identifier]
           gameTouch == createGameTouchEvent(touch, "end", m.now)
       IN  handleGestureEnd(
             [m EXCEPT !.activeTouches = TouchDelete(@, touch.identifier)],
             gameTouch, existingTouch)
  ELSE m

handleTouchEnd(m, changedTouches) == FoldSeq(touchEnded, m, changedTouches)

touchCancelled(m, touch) ==
  IF touch.identifier \in DOMAIN m.activeTouches
  THEN [m EXCEPT !.activeTouches = TouchDelete(@, touch.identifier)]
  ELSE m

handleTouchCancel(m, changedTouches) == FoldSeq(touchCancelled, m, changedTouches)

\* The callback of a long-press timer.
longPressCallback(m, timer) ==
  notifyGesture([m EXCEPT !.timers = @ \ {timer}],
                [type |-> "longpress", position |-> timer.touch.position,
                 touches |-> << timer.touch >>])

\* The changedTouches of a touch event: one or two touches of distinct identifiers.
ChangedTouches ==
  LET Touches == [identifier : TouchIds, clientX : ClientXs, clientY : {0}]
  IN  {<< t >> : t \in Touches}
        \cup {<< t, u >> : t \in Touches, u \in Touches}

DistinctTouches(changedTouches) ==
  \A i, j \in DOMAIN changedTouches :
     i # j => changedTouches[i].identifier # changedTouches[j].identifier

InitTouch ==
  /\ InitEngine(StaticScene, NewConfig(TRUE, FALSE, FALSE))
  /\ NoBoxes
  /\ phase = "touch"
  /\ arg = [activeTouches |-> << >>, timers |-> {}, longPressTimer |-> 0,
            nextHandle |-> 1, lastTapTime |-> 0, lastTapPosition |-> Undefined,
            now |-> 0, gestures |-> << >>, disturbed |-> {}]
  /\ ret = [op |-> "new", fired |-> 0, stale |-> FALSE]

\* arg.disturbed: the handles of the set timers whose touch has ended, been
\* cancelled or moved beyond the dead zone since the timer was set; ret.stale:
\* the timer that ran was one of them.
TouchCall(m, op, fired, disturbedIds) ==
  /\ phase = "touch"
  /\ arg' = [m EXCEPT !.disturbed =
               {t.handle : t \in {u \in m.timers :
                                    \/ u.handle \in arg.disturbed
                                    \/ /\ u \in arg.timers
                                       /\ u.touch.id \in disturbedIds}}]
  /\ ret' = [op |-> op, fired |-> fired, stale |-> fired \in arg.disturbed]
  /\ UNCHANGED << boxA, boxB, phase, hitAB, hitBA, resolved >>
  /\ UNCHANGED engineVars

Manager == [arg EXCEPT !.gestures = << >>]

ActiveOf(changedTouches) ==
  {changedTouches[i].identifier : i \in DOMAIN changedTouches}
    \cap DOMAIN arg.activeTouches

\* a touchstart event: the browser reports touches that were not active
TouchStart(changedTouches) ==
  /\ ActiveOf(changedTouches) = {}
  /\ arg.nextHandle + Len(changedTouches) <= MaxTimers + 1
  /\ TouchCall(handleTouchStart(Manager, changedTouches), "touchstart", 0, {})

TouchMove(changedTouches) ==
  TouchCall(handleTouchMove(Manager, changedTouches), "touchmove", 0,
            {changedTouches[i].identifier :
               i \in {j \in DOMAIN changedTouches :
                        movesBeyondDeadZone(Manager, changedTouches[j])}})

TouchEnd(changedTouches) ==
  TouchCall(handleTouchEnd(Manager, changedTouches), "touchend", 0,
            ActiveOf(changedTouches))

TouchCancel(changedTouches) ==
  TouchCall(handleTouchCancel(Manager, changedTouches), "touchcancel", 0,
            ActiveOf(changedTouches))

DueTimers == {t \in arg.timers : t.due <= arg.now}

\* The timers have the same delay: the one set first runs first.
LongPressTimer ==
  \E timer \in DueTimers :
     /\ \A other \in DueTimers : timer.handle <= other.handle
     /\ TouchCall(longPressCallback(Manager, timer), "timer", timer.handle, {})

\* Time passes; a timer that is due runs before time passes further.
Tick ==
  /\ DueTimers = {}
  /\ arg.now < MaxNow
  /\ TouchCall([Manager EXCEPT !.now = @ + TouchTick], "tick", 0, {})

NextTouch ==
  \/ \E changedTouches \in ChangedTouches :
        DistinctTouches(changedTouches) /\ TouchStart(changedTouches)
  \/ \E changedTouches \in ChangedTouches :
        DistinctTouches(changedTouches) /\ TouchMove(changedTouches)
  \/ \E changedTouches \in ChangedTouches :
        DistinctTouches(changedTouches) /\ TouchEnd(changedTouches)
  \/ \E changedTouches \in ChangedTouches :
        DistinctTouches(changedTouches) /\ TouchCancel(changedTouches)
  \/ LongPressTimer
  \/ Tick

SpecTouch == InitTouch /\ [][NextTouch]_vars

\* The long presses a touchend leaves pending: the timers set before it whose
\* touch is undisturbed and still held after it.
HeldLongPresses ==
  {t \in arg.timers :
     t.handle \notin arg.disturbed /\ t.touch.id \in DOMAIN arg'.activeTouches}

\* C40: a longpress gesture is emitted for a touch only if that touch has stayed
\* active and has not moved beyond the dead zone for the whole long-press
\* timeout: no longpress is emitted for a touch that has ended, been cancelled or
\* moved, and ending one touch does not cancel the pending long press of another
\* touch that is still held.
C40_LongPressOnlyForHeldTouch ==
  /\ []((phase = "touch" /\ ret.fired # 0) => ~ret.stale)
  /\ [][ret'.op = "touchend" => HeldLongPresses \subseteq arg'.timers]_vars

=============================================================================
